---- MODULE Spec2Model ----
(***************************************************************************)
(* The adaptive learning intelligence engine of prepmate-ai               *)
(* (src/ai-services/app/ml): mastery estimation (Bayesian knowledge       *)
(* tracing), retention estimation (forgetting curve), weakness detection, *)
(* adaptive planning, readiness prediction and scenario simulation, over  *)
(* the keyed document store they share.                                   *)
(*                                                                         *)
(* Numbers.  The code computes in IEEE doubles; the model computes in     *)
(* fixed point, one unit = 1/1000 ("milli"): a probability p is the       *)
(* integer 1000*p, a stability of s days is 1000*s, a score of 0..100 is  *)
(* kept in units of 1/1000 point.  Every product is rounded to the        *)
(* nearest unit (Round).  A float that is not a number is NaN: arithmetic *)
(* on it gives it back and every comparison with it is false.             *)
(***************************************************************************)
EXTENDS Integers, Sequences, FiniteSets, TLC

(***************************************************************************)
(* Bounds of the model.                                                    *)
(***************************************************************************)
MaxCalls == 2

MaxDays == 1

MaxAttempts == 3
\* handler calls in a longer run over few records
MaxAnalysisCalls == 4

\* the top of the readiness scale, in points
MaxScore == 100

\* topics of one learner above the risk floor
MaxWeakTopics == 4

(***************************************************************************)
(* Fixed-point arithmetic.                                                 *)
(***************************************************************************)
Round(n, d) == (2 * n + d) \div (2 * d)

Abs(x) == IF x < 0 THEN -x ELSE x

Min2(a, b) == IF a < b THEN a ELSE b

Max2(a, b) == IF a > b THEN a ELSE b

\* float("nan"), which a request may carry where it carries a float
NaN == -999999999

\* a < b, a > b, a >= b, a == b on floats
Lt(a, b) == a # NaN /\ b # NaN /\ a < b

Gt(a, b) == a # NaN /\ b # NaN /\ a > b

Ge(a, b) == a # NaN /\ b # NaN /\ a >= b

Eq(a, b) == a # NaN /\ b # NaN /\ a = b

\* Python's min(a, b) and max(a, b): the first argument unless the second
\* compares below (above) it
PyMin(a, b) == IF Lt(b, a) THEN b ELSE a

PyMax(a, b) == IF Gt(b, a) THEN b ELSE a

\* np.clip(x, lo, hi): not-a-number passes through
Clip(x, lo, hi) == IF x = NaN THEN NaN ELSE Max2(lo, Min2(hi, x))

\* 1000000 * e^(-n) for whole n; below half a milli-unit from n = 8 on
ExpNegWhole(n) ==
    CASE n = 0 -> 1000000
      [] n = 1 -> 367879
      [] n = 2 -> 135335
      [] n = 3 -> 49787
      [] n = 4 -> 18316
      [] n = 5 -> 6738
      [] n = 6 -> 2479
      [] n = 7 -> 912
      [] OTHER -> 0

\* 1000 * e^(-f/1000) for 0 <= f < 1000: the Taylor series of exp, eight terms
ExpNegFrac(f) ==
    LET t1 == f * 1000
        t2 == (t1 * f) \div 2000
        t3 == (t2 * f) \div 3000
        t4 == (t3 * f) \div 4000
        t5 == (t4 * f) \div 5000
        t6 == (t5 * f) \div 6000
        t7 == (t6 * f) \div 7000
    IN  Round(1000000 - t1 + t2 - t3 + t4 - t5 + t6 - t7, 1000)

\* math.exp(-x) / np.exp(-x) for x >= 0, x and the result in milli-units
ExpNeg(x) == Round(ExpNegWhole(x \div 1000) * ExpNegFrac(x % 1000), 1000000)

RECURSIVE SumSeq(_)
SumSeq(s) == IF s = <<>> THEN 0 ELSE Head(s) + SumSeq(Tail(s))

\* np.mean of a non-empty list
Mean(s) ==
    IF \E i \in 1..Len(s) : s[i] = NaN THEN NaN ELSE Round(SumSeq(s), Len(s))

(***************************************************************************)
(* The store: one document per (userId, topicId) in each collection.       *)
(***************************************************************************)
Users == {"u1", "u2"}

Topics == {"trees", "algorithms"}

Keys == {<<"u1", "trees">>, <<"u1", "algorithms">>, <<"u2", "trees">>}

Procs == {"p1", "p2"}

\* How the service was constructed: with no database (db is None), or with a
\* Motor database whose objects either have the default truth value or refuse
\* truth-value testing (bool(db) raises NotImplementedError), as the driver
\* version decides.
DbKinds == {"none", "truthy", "boolraises"}

(***************************************************************************)
(* Mastery Estimator: Bayesian knowledge tracing (mastery_engine.py).      *)
(***************************************************************************)
P_INIT == 100

P_LEARN == 150

P_GUESS == 100

P_SLIP == 50

\* The attempt dicts of the requests: difficulty and hints_used are whatever
\* the caller sent (the request model does not validate them).
Attempt(c, d, h) == [correct |-> c, difficulty |-> d, hints_used |-> h]

Batches ==
    { <<>>,
      <<Attempt(TRUE, 1, 0)>>,
      <<Attempt(TRUE, 1, 0), Attempt(TRUE, 1, 0), Attempt(FALSE, 2, 1)>>,
      <<Attempt(FALSE, 2, 1), Attempt(TRUE, 30, 5)>>,
      <<Attempt(TRUE, -30, 0)>>,
      <<Attempt(TRUE, NaN, 0)>> }

\* p_learn of BayesianKnowledgeTracing.update: scaled by the difficulty factor,
\* reduced per hint, at least half kept
LearnRate(difficulty_factor, hints_used) ==
    LET p_learn == Round(P_LEARN * difficulty_factor, 1000)
    IN  IF difficulty_factor = NaN THEN NaN
        ELSE IF hints_used > 0
        THEN Round(p_learn * Max2(500, 1000 - hints_used * 200), 1000)
        ELSE p_learn

\* posterior of BayesianKnowledgeTracing.update, clamped
Posterior(prior, correct, difficulty_factor, hints_used) ==
    LET p_learn == LearnRate(difficulty_factor, hints_used)
        p_knows_after_attempt ==
            IF correct
            THEN Round(prior * (1000 - P_SLIP) * 1000,
                       prior * (1000 - P_SLIP) + (1000 - prior) * P_GUESS)
            ELSE Round(prior * P_SLIP * 1000,
                       prior * P_SLIP + (1000 - prior) * (1000 - P_GUESS))
        posterior ==
            IF correct
            THEN p_knows_after_attempt
                 + Round((1000 - p_knows_after_attempt) * p_learn, 1000)
            ELSE Round(p_knows_after_attempt * 950, 1000)
    IN  IF prior = NaN \/ (correct /\ p_learn = NaN)
        THEN Clip(NaN, 0, 1000)
        ELSE Clip(posterior, 0, 1000)

\* confidence of BayesianKnowledgeTracing.update
Confidence(posterior) ==
    IF posterior = NaN THEN Clip(NaN, 0, 1000)
    ELSE Clip(1000 - ExpNeg(Abs(posterior - 500) * 2), 0, 1000)

\* a tracer that ignores the attempt: the probability stays where it was
update_without_evidence(prior, correct, difficulty_factor, hints_used) ==
    <<prior, Confidence(prior)>>

\* BayesianKnowledgeTracing.update: <<posterior, confidence>>
update(prior, correct, difficulty_factor, hints_used) ==
    LET posterior == Posterior(prior, correct, difficulty_factor, hints_used)
    IN  <<posterior, Confidence(posterior)>>

\* diff_factor of batch_update
DiffFactor(difficulty) ==
    IF difficulty = NaN THEN NaN ELSE 500 + Round(difficulty * 1000, 3)

\* the loop of batch_update: <<current, confidences>>
RECURSIVE BatchLoop(_, _, _)
BatchLoop(current, confidences, attempts) ==
    IF attempts = <<>>
    THEN <<current, confidences>>
    ELSE LET attempt == Head(attempts)
             r == update(current, attempt.correct,
                         DiffFactor(attempt.difficulty), attempt.hints_used)
         IN  BatchLoop(r[1], Append(confidences, r[2]), Tail(attempts))

\* BayesianKnowledgeTracing.batch_update: <<final probability, average confidence>>
batch_update(prior, attempts) ==
    LET r == BatchLoop(prior, <<>>, attempts)
    IN  <<r[1], IF r[2] = <<>> THEN 500 ELSE Mean(r[2])>>

(***************************************************************************)
(* State.                                                                  *)
(***************************************************************************)
VARIABLES
    dbKind,          \* how the services were constructed (DbKinds)
    readinessModel,  \* ReadinessModel.model: "none", or "loaded" from the registry
    now,             \* datetime.utcnow(), in whole days since startup
    calls,           \* handler calls started so far
    masteryStore,    \* db.topic_mastery: key -> document
    retentionStore,  \* db.revision_schedule: key -> document
    signalStore,     \* db.weak_topic_signals: key -> document
    taskStore,       \* db.preparation_tasks: the documents inserted, in order
    readinessStore,  \* db.readiness_score: user -> document (targetCompany "general")
    proc,            \* the update_mastery / update_retention call each process is in
    masteryResult,   \* what each process's last update_mastery call gave its caller
    retentionResult, \* what each process's last update_retention call gave its caller
    analysis,        \* what the last analyze_weaknesses call gave its caller
    plan,            \* what the last generate_adaptive_plan call gave its caller
    prediction,      \* what the last predict_readiness call gave its caller
    simulation,      \* what the last run_simulation call gave its caller
    submitted,       \* history: attempts of the update_mastery calls that wrote, per key
    tracing,         \* a learner's probability under repeated identical attempts
    budget,          \* the number of handler calls the run admits
    registry,        \* ModelRegistry.models: "unloaded" before startup, then "loaded"
    reading,         \* what the last read accessor call gave its caller
    probe            \* a formula of a handler applied to a value of its domain

vars ==
    <<dbKind, readinessModel, now, calls, masteryStore, retentionStore, signalStore, taskStore,
      readinessStore, proc, masteryResult, retentionResult, analysis, plan,
      prediction, simulation, submitted, tracing, budget, registry, reading,
      probe>>

stores == <<masteryStore, retentionStore, signalStore, taskStore, readinessStore>>

\* find_one found nothing (None)
NoMastery ==
    [present |-> FALSE, mastery_probability |-> 0, confidence_score |-> 0,
     improvement_trend |-> "unknown", attempts_count |-> 0,
     recommended_difficulty |-> "none", updatedAt |-> 0]

NoRetention ==
    [present |-> FALSE, retention_probability |-> 0, stability_score |-> 0,
     nextRevisionDate |-> 0, lastRevisionDate |-> 0, isSuccessful |-> FALSE,
     revisionCount |-> 0, updatedAt |-> 0]

IdleProc ==
    [pc |-> "idle", key |-> <<"u1", "trees">>, attempts |-> <<>>,
     is_successful_revision |-> FALSE, time_since_last |-> 0, at |-> 0,
     current_mastery |-> NoMastery, current_retention |-> NoRetention]

NoMasteryResult ==
    [status |-> "none", error |-> "none", key |-> <<"u1", "trees">>,
     had_record |-> FALSE, prior |-> 0, total_attempts |-> 0,
     mastery_probability |-> 0, confidence_score |-> 0,
     improvement_trend |-> "unknown", attempts_count |-> 0,
     recommended_difficulty |-> "none"]

\* no read accessor has been called.  store_failed: whether the store failed
\* under the call; found: get_mastery gave a document
NoReading ==
    [op |-> "none", status |-> "none", user_id |-> "u1", store_failed |-> FALSE,
     found |-> FALSE, topics |-> <<>>, average_retention |-> 0,
     overdue_revisions |-> 0]

\* self.collection is not None
HasCollection == dbKind # "none"

\* collection.find_one({"userId": ..., "topicId": ...})
find_one(store, key) == store[key]

\* an update whose filter matches every document of the collection
update_one_any_key(store, key, data) == [k \in DOMAIN store |-> data]

\* collection.update_one({"userId": ..., "topicId": ...}, {"$set": data}, upsert=True)
update_one(store, key, data) == [store EXCEPT ![key] = data]

\* improvement_trend of update_mastery
Trend(current_doc, prior, posterior) ==
    IF current_doc.present
    THEN LET previous == current_doc.mastery_probability
         IN  IF Gt(posterior, previous) /\ posterior > previous + 50
             THEN "improving"
             ELSE IF Lt(posterior, previous) /\ posterior < previous - 50
             THEN "declining"
             ELSE "stable"
    ELSE IF Gt(posterior, prior) THEN "improving" ELSE "stable"

\* recommended_difficulty of update_mastery
RecDifficulty(posterior) ==
    IF Lt(posterior, 400) THEN "easy"
    ELSE IF Lt(posterior, 700) THEN "medium"
    ELSE "hard"

\* prior of update_mastery: the stored probability, 0.1 without a record
Prior(current_doc) ==
    IF current_doc.present THEN current_doc.mastery_probability ELSE P_INIT

\* an update that records the size of the latest batch as the attempts count
MasteryUpdateData_latest_batch(current_doc, attempts, at) ==
    LET prior == Prior(current_doc)
        r == batch_update(prior, attempts)
    IN  [present |-> TRUE,
         mastery_probability |-> r[1],
         confidence_score |-> r[2],
         improvement_trend |-> Trend(current_doc, prior, r[1]),
         attempts_count |-> Len(attempts),
         recommended_difficulty |-> RecDifficulty(r[1]),
         updatedAt |-> at]

\* update_data of update_mastery
MasteryUpdateData(current_doc, attempts, at) ==
    LET prior == Prior(current_doc)
        r == batch_update(prior, attempts)
    IN  [present |-> TRUE,
         mastery_probability |-> r[1],
         confidence_score |-> r[2],
         improvement_trend |-> Trend(current_doc, prior, r[1]),
         attempts_count |->
             IF current_doc.present
             THEN current_doc.attempts_count + Len(attempts)
             ELSE Len(attempts),
         recommended_difficulty |-> RecDifficulty(r[1]),
         updatedAt |-> at]

\* update_mastery up to update_one: the request arrives and find_one answers
\* (no store: current_doc stays None)
update_mastery_find_one(p, key, attempts) ==
    /\ proc[p].pc = "idle"
    /\ calls < budget
    /\ calls' = calls + 1
    /\ proc' = [proc EXCEPT ![p] =
                  [IdleProc EXCEPT
                     !.pc = "update_mastery",
                     !.key = key,
                     !.attempts = attempts,
                     !.at = now,
                     !.current_mastery =
                         IF HasCollection THEN find_one(masteryStore, key)
                         ELSE NoMastery]]
    /\ masteryResult' = [masteryResult EXCEPT ![p] = NoMasteryResult]
    /\ UNCHANGED <<budget, registry, reading, probe, tracing, dbKind, readinessModel, now, stores, retentionResult, analysis, plan,
                   prediction, simulation, submitted>>

\* update_mastery from find_one's answer to its end: the estimate, the
\* explainability (which divides by the number of attempts), the upsert, the
\* returned metrics (which test the collection's truth value)
update_mastery_update_one(p) ==
    LET key == proc[p].key
        attempts == proc[p].attempts
        current_doc == proc[p].current_mastery
        total_attempts == Len(attempts)
        update_data == MasteryUpdateData(current_doc, attempts, proc[p].at)
        base == [NoMasteryResult EXCEPT
                   !.key = key,
                   !.had_record = current_doc.present,
                   !.prior = Prior(current_doc),
                   !.total_attempts = total_attempts]
    IN  /\ proc[p].pc = "update_mastery"
        /\ proc' = [proc EXCEPT ![p] = IdleProc]
        /\ IF total_attempts = 0
           THEN \* correct_count / total_attempts
                /\ masteryResult' = [masteryResult EXCEPT ![p] =
                       [base EXCEPT !.status = "raised",
                                    !.error = "ZeroDivisionError"]]
                /\ UNCHANGED <<masteryStore, submitted>>
           ELSE /\ IF HasCollection
                   THEN /\ masteryStore' = update_one(masteryStore, key, update_data)
                        /\ submitted' = [submitted EXCEPT ![key] = @ + total_attempts]
                   ELSE UNCHANGED <<masteryStore, submitted>>
                /\ masteryResult' = [masteryResult EXCEPT ![p] =
                       IF dbKind = "boolraises"
                       THEN \* "if self.collection" on a collection without bool()
                            [base EXCEPT !.status = "raised",
                                         !.error = "NotImplementedError"]
                       ELSE [base EXCEPT
                               !.status = "returned",
                               !.mastery_probability = update_data.mastery_probability,
                               !.confidence_score = update_data.confidence_score,
                               !.improvement_trend = update_data.improvement_trend,
                               !.attempts_count =
                                   IF HasCollection THEN update_data.attempts_count
                                   ELSE total_attempts,
                               !.recommended_difficulty =
                                   update_data.recommended_difficulty]]
        /\ UNCHANGED <<budget, registry, reading, probe, tracing, dbKind, readinessModel, now, calls, retentionStore, signalStore, taskStore,
                       readinessStore, retentionResult, analysis, plan,
                       prediction, simulation>>

\* update_mastery when find_one fails in the store: the handler logs and
\* re-raises
update_mastery_find_one_fails(p, key, attempts) ==
    /\ proc[p].pc = "idle"
    /\ calls < budget
    /\ HasCollection
    /\ calls' = calls + 1
    /\ masteryResult' = [masteryResult EXCEPT ![p] =
           [NoMasteryResult EXCEPT !.status = "raised", !.error = "StoreError",
                                   !.key = key]]
    /\ UNCHANGED <<budget, registry, reading, probe, tracing, dbKind, readinessModel, now, stores, proc,
                   retentionResult, analysis, plan, prediction, simulation,
                   submitted>>

\* a handler that logs the store's failure and answers as if it had written
update_mastery_update_one_swallowed(p) ==
    /\ proc[p].pc = "update_mastery"
    /\ HasCollection
    /\ Len(proc[p].attempts) > 0
    /\ proc' = [proc EXCEPT ![p] = IdleProc]
    /\ masteryResult' = [masteryResult EXCEPT ![p] =
           [NoMasteryResult EXCEPT
              !.status = "returned", !.error = "StoreError",
              !.key = proc[p].key,
              !.had_record = proc[p].current_mastery.present,
              !.prior = Prior(proc[p].current_mastery),
              !.total_attempts = Len(proc[p].attempts)]]
    /\ UNCHANGED <<budget, registry, reading, probe, tracing, dbKind, readinessModel, now, calls, stores,
                   retentionResult, analysis, plan, prediction, simulation,
                   submitted>>

\* update_mastery when update_one fails in the store: nothing is written, the
\* handler logs and re-raises
update_mastery_update_one_fails(p) ==
    /\ proc[p].pc = "update_mastery"
    /\ HasCollection
    /\ Len(proc[p].attempts) > 0
    /\ proc' = [proc EXCEPT ![p] = IdleProc]
    /\ masteryResult' = [masteryResult EXCEPT ![p] =
           [NoMasteryResult EXCEPT
              !.status = "raised", !.error = "StoreError",
              !.key = proc[p].key,
              !.had_record = proc[p].current_mastery.present,
              !.prior = Prior(proc[p].current_mastery),
              !.total_attempts = Len(proc[p].attempts)]]
    /\ UNCHANGED <<budget, registry, reading, probe, tracing, dbKind, readinessModel, now, calls, stores,
                   retentionResult, analysis, plan, prediction, simulation,
                   submitted>>

(***************************************************************************)
(* BayesianKnowledgeTracing.update applied again and again to its own      *)
(* result, with one and the same attempt.                                  *)
(***************************************************************************)
\* the probabilities strictly between 0 and 1
StartProbabilities == 1..999

\* the difficulty and hints_used of the repeated attempt
Difficulties == {-30, 1, 30, NaN}

HintsUsed == {0, 5}

NotTracing ==
    [attempt |-> Attempt(FALSE, 0, 0), prior |-> 0, posterior |-> 0, attempts |-> 0]

\* one more of the identical attempts, as the loop of batch_update applies it
bkt_update ==
    /\ tracing.attempts < MaxAttempts
    /\ tracing' =
           [tracing EXCEPT
              !.prior = tracing.posterior,
              !.posterior = update(tracing.posterior, tracing.attempt.correct,
                                   DiffFactor(tracing.attempt.difficulty),
                                   tracing.attempt.hints_used)[1],
              !.attempts = @ + 1]
    /\ UNCHANGED <<budget, registry, reading, probe, dbKind, readinessModel, now, calls, masteryStore,
                   retentionStore, signalStore, taskStore, readinessStore, proc,
                   masteryResult, retentionResult, analysis, plan, prediction,
                   simulation, submitted>>

(***************************************************************************)
(* Retention Estimator: forgetting curve and spacing (retention_model.py). *)
(***************************************************************************)
DEFAULT_STABILITY == 3000

\* the time_since_last_revision_hours a request may carry (any float)
HoursSent == {48, 1000, -24, -60000, NaN}

\* math.exp(-time_days / stability_days): the value, or OverflowError when the
\* exponent is too large for a double (beyond about 709.78)
ExpOfRatio(time_days, stability_days) ==
    IF time_days = NaN THEN [raised |-> FALSE, value |-> NaN]
    ELSE IF time_days >= 0
    THEN [raised |-> FALSE,
          value |-> IF time_days \div stability_days >= 8 THEN 0
                    ELSE ExpNeg(Round(time_days * 1000, stability_days))]
    ELSE IF (-time_days) \div stability_days >= 710
         THEN [raised |-> TRUE, value |-> 0]
         \* e^y for y > 0 is above 1: "more than 1.0" is all the clamp that
         \* follows reads
         ELSE [raised |-> FALSE, value |-> 1001]

\* EbbinghausForgettingCurve.retention_probability: [raised, value]
retention_probability(time_elapsed_hours, stability_days) ==
    LET stability == IF stability_days <= 0 THEN DEFAULT_STABILITY
                     ELSE stability_days
        time_days == IF time_elapsed_hours = NaN THEN NaN
                     ELSE Round(time_elapsed_hours * 1000, 24)
        retention == ExpOfRatio(time_days, stability)
    IN  [raised |-> retention.raised,
         value |-> PyMax(0, PyMin(1000, retention.value))]

\* update_stability without its bound
update_stability_unbounded(current_stability, successful_revision, retention_at_review) ==
    IF successful_revision
    THEN Round(current_stability * Round(1300 * (1000 + retention_at_review), 1000),
               1000)
    ELSE Round(current_stability * 500, 1000)

\* a rule that scales the stability by the retention itself on success
update_stability_by_retention(current_stability, successful_revision, retention_at_review) ==
    LET new_stability ==
            IF successful_revision
            THEN Round(current_stability * Round(1300 * retention_at_review, 1000),
                       1000)
            ELSE Round(current_stability * 500, 1000)
    IN  Max2(1000, Min2(30000, new_stability))

\* EbbinghausForgettingCurve.update_stability
update_stability(current_stability, successful_revision, retention_at_review) ==
    LET factor == Round(1300 * (2000 - (1000 - retention_at_review)), 1000)
        new_stability ==
            IF successful_revision
            THEN Round(current_stability * factor, 1000)
            ELSE Round(current_stability * 500, 1000)
    IN  Max2(1000, Min2(30000, new_stability))

\* EbbinghausForgettingCurve.compute_next_revision_time: the timedelta, in
\* milli-days; -log(0.9) = 0.10536
compute_next_revision_time(current_stability, target_retention) ==
    IF current_stability <= 0 \/ target_retention >= 1000
    THEN 3000
    ELSE Max2(1000, Min2(30000, Round(current_stability * 10536, 100000)))

\* urgency of update_retention
Urgency(retention_now) ==
    IF retention_now < 300 THEN "critical"
    ELSE IF retention_now < 500 THEN "high"
    ELSE IF retention_now < 750 THEN "medium"
    ELSE "low"

NoRetentionResult ==
    [status |-> "none", error |-> "none", key |-> <<"u1", "trees">>,
     had_record |-> FALSE, time_since_last |-> 0,
     retention_probability |-> 0, stability_score |-> 0,
     next_revision_delta |-> 0, days_until_revision |-> 0,
     urgency_level |-> "none"]

\* time_since_last of update_retention, in hours: measured from the stored
\* lastRevisionDate when there is one, else taken from the request
TimeSinceLast(current_doc, hours_sent, at) ==
    IF current_doc.present
    THEN (at - current_doc.lastRevisionDate) * 24
    ELSE hours_sent

\* current_stability of update_retention
CurrentStability(current_doc) ==
    IF current_doc.present THEN current_doc.stability_score ELSE DEFAULT_STABILITY

\* update_data of update_retention, given the retention computed
RetentionUpdateData(current_doc, successful, retention_now, at) ==
    LET new_stability ==
            update_stability(CurrentStability(current_doc), successful, retention_now)
        next_revision_delta == compute_next_revision_time(new_stability, 900)
    IN  [present |-> TRUE,
         retention_probability |-> retention_now,
         stability_score |-> new_stability,
         nextRevisionDate |-> at * 1000 + next_revision_delta,
         lastRevisionDate |-> at,
         isSuccessful |-> successful,
         revisionCount |->
             IF current_doc.present THEN current_doc.revisionCount + 1 ELSE 1,
         updatedAt |-> at]

\* update_retention up to update_one: the request arrives, find_one answers,
\* and time_since_last is taken from the record found or from the request
update_retention_find_one(p, key, successful, hours) ==
    LET current_doc == IF HasCollection THEN find_one(retentionStore, key)
                       ELSE NoRetention
    IN  /\ proc[p].pc = "idle"
        /\ calls < budget
        /\ calls' = calls + 1
        /\ proc' = [proc EXCEPT ![p] =
                      [IdleProc EXCEPT
                         !.pc = "update_retention",
                         !.key = key,
                         !.is_successful_revision = successful,
                         !.time_since_last = TimeSinceLast(current_doc, hours, now),
                         !.at = now,
                         !.current_retention = current_doc]]
        /\ retentionResult' = [retentionResult EXCEPT ![p] = NoRetentionResult]
        /\ UNCHANGED <<budget, registry, reading, probe, tracing, dbKind, readinessModel, now, stores, masteryResult, analysis,
                       plan, prediction, simulation, submitted>>

\* update_retention from time_since_last to its end
update_retention_update_one(p) ==
    LET key == proc[p].key
        current_doc == proc[p].current_retention
        successful == proc[p].is_successful_revision
        time_since_last == proc[p].time_since_last
        retention_now ==
            retention_probability(time_since_last, CurrentStability(current_doc))
        update_data ==
            RetentionUpdateData(current_doc, successful, retention_now.value,
                                proc[p].at)
        next_revision_delta ==
            update_data.nextRevisionDate - proc[p].at * 1000
        base == [NoRetentionResult EXCEPT
                   !.key = key,
                   !.had_record = current_doc.present,
                   !.time_since_last = time_since_last]
    IN  /\ proc[p].pc = "update_retention"
        /\ proc' = [proc EXCEPT ![p] = IdleProc]
        /\ IF retention_now.raised
           THEN /\ retentionResult' = [retentionResult EXCEPT ![p] =
                       [base EXCEPT !.status = "raised",
                                    !.error = "OverflowError"]]
                /\ UNCHANGED retentionStore
           ELSE /\ retentionStore' =
                       IF HasCollection
                       THEN update_one(retentionStore, key, update_data)
                       ELSE retentionStore
                /\ retentionResult' = [retentionResult EXCEPT ![p] =
                       [base EXCEPT
                          !.status = "returned",
                          !.retention_probability = retention_now.value,
                          !.stability_score = update_data.stability_score,
                          !.next_revision_delta = next_revision_delta,
                          !.days_until_revision = next_revision_delta \div 1000,
                          !.urgency_level = Urgency(retention_now.value)]]
        /\ UNCHANGED <<budget, registry, reading, probe, tracing, dbKind, readinessModel, now, calls, masteryStore, signalStore, taskStore,
                       readinessStore, masteryResult, analysis, plan,
                       prediction, simulation, submitted>>

\* update_retention when find_one fails in the store: the handler logs and
\* re-raises
update_retention_find_one_fails(p, key, successful, hours) ==
    /\ proc[p].pc = "idle"
    /\ calls < budget
    /\ HasCollection
    /\ calls' = calls + 1
    /\ retentionResult' = [retentionResult EXCEPT ![p] =
           [NoRetentionResult EXCEPT !.status = "raised", !.error = "StoreError",
                                     !.key = key]]
    /\ UNCHANGED <<budget, registry, reading, probe, tracing, dbKind, readinessModel, now, stores, proc,
                   masteryResult, analysis, plan, prediction, simulation,
                   submitted>>

\* update_retention when update_one fails in the store: nothing is written,
\* the handler logs and re-raises
update_retention_update_one_fails(p) ==
    /\ proc[p].pc = "update_retention"
    /\ HasCollection
    /\ ~retention_probability(proc[p].time_since_last,
                              CurrentStability(proc[p].current_retention)).raised
    /\ proc' = [proc EXCEPT ![p] = IdleProc]
    /\ retentionResult' = [retentionResult EXCEPT ![p] =
           [NoRetentionResult EXCEPT
              !.status = "raised", !.error = "StoreError",
              !.key = proc[p].key,
              !.had_record = proc[p].current_retention.present,
              !.time_since_last = proc[p].time_since_last]]
    /\ UNCHANGED <<budget, registry, reading, probe, tracing, dbKind, readinessModel, now, calls, stores,
                   masteryResult, analysis, plan, prediction, simulation,
                   submitted>>

\* time passes between requests
Tick ==
    /\ now < MaxDays
    /\ now' = now + 1
    /\ UNCHANGED <<budget, registry, reading, probe, tracing, dbKind, readinessModel, calls, stores, proc, masteryResult, retentionResult,
                   analysis, plan, prediction, simulation, submitted>>

(***************************************************************************)
(* Read accessors.                                                         *)
(***************************************************************************)
\* the order in which find({"userId": ...}) lists a user's documents
TopicOrder == <<"trees", "algorithms">>

RECURSIVE SelectTopics(_, _, _)
SelectTopics(store, user_id, order) ==
    IF order = <<>> THEN <<>>
    ELSE LET rest == SelectTopics(store, user_id, Tail(order))
             key == <<user_id, Head(order)>>
         IN  IF key \in Keys /\ store[key].present
             THEN <<Head(order)>> \o rest
             ELSE rest

\* the "topics" of MasteryEngine.get_user_mastery_profile
get_user_mastery_profile(user_id) ==
    IF ~HasCollection THEN <<>>
    ELSE LET ids == SelectTopics(masteryStore, user_id, TopicOrder)
         IN  [i \in 1..Len(ids) |->
                [topic_id |-> ids[i],
                 mastery |-> masteryStore[<<user_id, ids[i]>>].mastery_probability,
                 confidence |-> masteryStore[<<user_id, ids[i]>>].confidence_score,
                 trend |-> masteryStore[<<user_id, ids[i]>>].improvement_trend,
                 attempts |-> masteryStore[<<user_id, ids[i]>>].attempts_count]]

\* retention_map.get(topic_id, 0.5) over db.revision_schedule.find({"userId": ...})
RetentionOf(user_id, topic_id, readable) ==
    IF readable /\ retentionStore[<<user_id, topic_id>>].present
    THEN retentionStore[<<user_id, topic_id>>].retention_probability
    ELSE 500

\* what a read accessor gives when it has no collection or the store fails:
\* None, {"topics": []}, [], {"topics": [], "average_retention": 0}
NoData(op, user_id, store_fails) ==
    [NoReading EXCEPT !.op = op, !.status = "returned", !.user_id = user_id,
                      !.store_failed = store_fails]

\* a read accessor call: nothing but the caller's answer changes
Answers(result) ==
    /\ reading' = result
    /\ UNCHANGED <<budget, registry, probe, tracing, dbKind, readinessModel, now, calls, stores, proc,
                   masteryResult, retentionResult, analysis, plan, prediction,
                   simulation, submitted>>

\* MasteryEngine.get_mastery: the document or None
get_mastery(user_id, topic_id, store_fails) ==
    /\ <<user_id, topic_id>> \in Keys
    /\ Answers(IF ~HasCollection \/ store_fails
               THEN NoData("get_mastery", user_id, HasCollection /\ store_fails)
               ELSE [NoData("get_mastery", user_id, FALSE) EXCEPT
                       !.found = find_one(masteryStore, <<user_id, topic_id>>).present,
                       !.topics =
                           IF find_one(masteryStore, <<user_id, topic_id>>).present
                           THEN <<topic_id>> ELSE <<>>])

\* MasteryEngine.get_user_mastery_profile, called through the API
get_mastery_profile(user_id, store_fails) ==
    Answers(IF ~HasCollection \/ store_fails
            THEN NoData("get_user_mastery_profile", user_id,
                        HasCollection /\ store_fails)
            ELSE [NoData("get_user_mastery_profile", user_id, FALSE) EXCEPT
                    !.topics = get_user_mastery_profile(user_id)])

\* update_retention stores next_revision_date.isoformat(): a string
NextRevisionDateType == "string"

\* a find without the condition on nextRevisionDate
MongoLte_any(field_type, field, value_type, value) == TRUE

\* {"nextRevisionDate": {"$lte": now}}: MongoDB compares a field with a query
\* value of the same BSON type only; a string field never matches a datetime
MongoLte(field_type, field, value_type, value) ==
    field_type = value_type /\ field <= value

\* sort("nextRevisionDate", 1) of get_revision_queue
RECURSIVE InsertByDate(_, _, _)
InsertByDate(user_id, t, sorted) ==
    IF sorted = <<>> THEN <<t>>
    ELSE IF retentionStore[<<user_id, Head(sorted)>>].nextRevisionDate
              <= retentionStore[<<user_id, t>>].nextRevisionDate
         THEN <<Head(sorted)>> \o InsertByDate(user_id, t, Tail(sorted))
         ELSE <<t>> \o sorted

RECURSIVE SortByDate(_, _)
SortByDate(user_id, ids) ==
    IF ids = <<>> THEN <<>>
    ELSE InsertByDate(user_id, ids[Len(ids)],
                      SortByDate(user_id, SubSeq(ids, 1, Len(ids) - 1)))

\* the documents get_revision_queue's find matches, in TopicOrder
RECURSIVE DueTopics(_, _)
DueTopics(user_id, ids) ==
    IF ids = <<>> THEN <<>>
    ELSE LET rest == DueTopics(user_id, Tail(ids))
         IN  IF MongoLte(NextRevisionDateType,
                         retentionStore[<<user_id, Head(ids)>>].nextRevisionDate,
                         "date", now * 1000)
             THEN <<Head(ids)>> \o rest
             ELSE rest

\* the entry of one document in the answers of the retention read accessors
RetentionEntry(user_id, topic_id) ==
    [topic_id |-> topic_id,
     retention |-> retentionStore[<<user_id, topic_id>>].retention_probability,
     stability |-> retentionStore[<<user_id, topic_id>>].stability_score,
     next_revision_date |-> retentionStore[<<user_id, topic_id>>].nextRevisionDate]

\* the default limit of get_revision_queue
QUEUE_LIMIT == 10

\* RetentionModel.get_revision_queue
get_revision_queue(user_id, store_fails) ==
    Answers(IF ~HasCollection \/ store_fails
            THEN NoData("get_revision_queue", user_id, HasCollection /\ store_fails)
            ELSE LET due == SortByDate(user_id,
                                DueTopics(user_id,
                                          SelectTopics(retentionStore, user_id,
                                                       TopicOrder)))
                     revisions == SubSeq(due, 1, Min2(QUEUE_LIMIT, Len(due)))
                 IN  [NoData("get_revision_queue", user_id, FALSE) EXCEPT
                        !.topics = [i \in 1..Len(revisions) |->
                                      RetentionEntry(user_id, revisions[i])]])

\* RetentionModel.get_retention_snapshot
get_retention_snapshot(user_id, store_fails) ==
    Answers(IF ~HasCollection \/ store_fails
            THEN NoData("get_retention_snapshot", user_id,
                        HasCollection /\ store_fails)
            ELSE LET ids == SelectTopics(retentionStore, user_id, TopicOrder)
                     topics == [i \in 1..Len(ids) |-> RetentionEntry(user_id, ids[i])]
                     retentions == [i \in 1..Len(ids) |-> topics[i].retention]
                 IN  [NoData("get_retention_snapshot", user_id, FALSE) EXCEPT
                        !.topics = topics,
                        !.average_retention =
                            IF retentions = <<>> THEN 0 ELSE Mean(retentions),
                        !.overdue_revisions =
                            Cardinality({i \in 1..Len(ids) :
                                topics[i].next_revision_date <= now * 1000})])

(***************************************************************************)
(* Weakness Detector (weakness_detection.py).                              *)
(***************************************************************************)
MASTERY_THRESHOLD == 600

RETENTION_THRESHOLD == 500

DIFFICULTY_TARGET == 750

MASTERY_WEIGHT == 350

RETENTION_WEIGHT == 250

DIFFICULTY_WEIGHT == 250

CONSISTENCY_WEIGHT == 150

\* the floor of analyze_weaknesses, in milli-points: risk_score > 20
RISK_FLOOR == 20000

_calculate_mastery_gap(mastery) ==
    IF Ge(mastery, MASTERY_THRESHOLD) THEN 0
    ELSE IF mastery = NaN THEN Clip(NaN, 0, 1000)
    ELSE Clip(Round((MASTERY_THRESHOLD - mastery) * 1000, MASTERY_THRESHOLD), 0, 1000)

_calculate_retention_risk(retention) ==
    IF Ge(retention, RETENTION_THRESHOLD) THEN 0
    ELSE IF retention = NaN THEN Clip(NaN, 0, 1000)
    ELSE Clip(1000 - ExpNeg((1000 - retention) * 3), 0, 1000)

_calculate_difficulty_gap(success_rate) ==
    IF success_rate = NaN THEN Clip(NaN, 0, 1000)
    ELSE Clip(Round(Abs(success_rate - DIFFICULTY_TARGET) * 1000, DIFFICULTY_TARGET),
              0, 1000)

_determine_signal_type(mastery_gap, retention_risk, difficulty_gap) ==
    LET max_gap == PyMax(PyMax(mastery_gap, retention_risk), difficulty_gap)
    IN  IF Eq(max_gap, mastery_gap) /\ Gt(mastery_gap, 300) THEN "mastery_gap"
        ELSE IF Eq(max_gap, retention_risk) /\ Gt(retention_risk, 300)
             THEN "retention_decay"
        ELSE IF Eq(max_gap, difficulty_gap) /\ Gt(difficulty_gap, 300)
             THEN "performance_variance"
        ELSE "general_weakness"

\* risk_score before the clamp, in milli-points
RawRiskScore(mastery_gap, retention_risk, difficulty_gap, consistency_score) ==
    LET consistency_factor == 1000 - Round(consistency_score * 300, 1000)
        weighted_risk ==
            mastery_gap * MASTERY_WEIGHT
            + retention_risk * RETENTION_WEIGHT
            + difficulty_gap * DIFFICULTY_WEIGHT
            + (1000 - consistency_score) * CONSISTENCY_WEIGHT
    IN  IF NaN \in {mastery_gap, retention_risk, difficulty_gap} THEN NaN
        ELSE Round(weighted_risk * consistency_factor, 10000)

_calculate_topic_risk_score(mastery_gap, retention_risk, difficulty_gap, consistency_score) ==
    Clip(RawRiskScore(mastery_gap, retention_risk, difficulty_gap,
                      consistency_score), 0, 100000)

\* consistency_score of analyze_weaknesses, from the trend
ConsistencyScore(trend) ==
    CASE trend = "improving" -> 800
      [] trend = "stable" -> 600
      [] trend = "declining" -> 300
      [] OTHER -> 500

\* the TopicRisk analyze_weaknesses computes for one topic of the profile
TopicRisk(topic, retention) ==
    LET mastery_gap == _calculate_mastery_gap(topic.mastery)
        retention_risk == _calculate_retention_risk(retention)
        difficulty_gap == _calculate_difficulty_gap(topic.mastery)
    IN  [topic_id |-> topic.topic_id,
         risk_score |-> _calculate_topic_risk_score(
                            mastery_gap, retention_risk, difficulty_gap,
                            ConsistencyScore(topic.trend)),
         mastery_gap |-> mastery_gap,
         retention_risk |-> retention_risk,
         difficulty_gap |-> difficulty_gap,
         signal_type |-> _determine_signal_type(mastery_gap, retention_risk,
                                                difficulty_gap)]

\* list.sort(key=risk_score, reverse=True): stable, equal scores keep their order
RECURSIVE InsertByRisk(_, _)
InsertByRisk(t, sorted) ==
    IF sorted = <<>> THEN <<t>>
    ELSE IF Head(sorted).risk_score >= t.risk_score
         THEN <<Head(sorted)>> \o InsertByRisk(t, Tail(sorted))
         ELSE <<t>> \o sorted

RECURSIVE SortByRisk(_)
SortByRisk(s) ==
    IF s = <<>> THEN <<>>
    ELSE InsertByRisk(s[Len(s)], SortByRisk(SubSeq(s, 1, Len(s) - 1)))

\* weak_topics of analyze_weaknesses before the sort: the topics above the floor
RECURSIVE WeakTopics(_, _, _)
WeakTopics(user_id, topics, readable) ==
    IF topics = <<>> THEN <<>>
    ELSE LET t == TopicRisk(Head(topics),
                            RetentionOf(user_id, Head(topics).topic_id, readable))
             rest == WeakTopics(user_id, Tail(topics), readable)
         IN  IF Gt(t.risk_score, RISK_FLOOR) THEN <<t>> \o rest ELSE rest

\* the upserts of analyze_weaknesses into db.weak_topic_signals
RECURSIVE StoreSignals(_, _, _, _)
StoreSignals(store, user_id, weak_topics, at) ==
    IF weak_topics = <<>> THEN store
    ELSE StoreSignals(
             update_one(store, <<user_id, Head(weak_topics).topic_id>>,
                        [present |-> TRUE,
                         riskScore |-> Head(weak_topics).risk_score,
                         masteryGap |-> Head(weak_topics).mastery_gap,
                         retentionRisk |-> Head(weak_topics).retention_risk,
                         difficultyGap |-> Head(weak_topics).difficulty_gap,
                         signalType |-> Head(weak_topics).signal_type,
                         detectedAt |-> at]),
             user_id, Tail(weak_topics), at)

NoSignal ==
    [present |-> FALSE, riskScore |-> 0, masteryGap |-> 0, retentionRisk |-> 0,
     difficultyGap |-> 0, signalType |-> "none", detectedAt |-> 0]

NoAnalysis ==
    [status |-> "none", error |-> "none", user_id |-> "u1", weak_topics |-> <<>>,
     focus_areas |-> <<>>, intervention_priority_score |-> 0]

\* a ranking that names the focus areas before the sort
RankWeakTopics_unsorted_focus(weak_topics) ==
    [weak_topics |-> SortByRisk(weak_topics),
     focus_areas |->
         [i \in 1..Min2(3, Len(weak_topics)) |-> weak_topics[i].topic_id],
     intervention_priority_score |->
         IF weak_topics = <<>> THEN 0
         ELSE Mean([i \in 1..Len(weak_topics) |-> weak_topics[i].risk_score])]

\* the ranking of analyze_weaknesses: the sort, the top three as focus areas
\* and np.mean of the risk scores collected
RankWeakTopics(weak_topics) ==
    LET sorted == SortByRisk(weak_topics)
        risk_scores == [i \in 1..Len(weak_topics) |-> weak_topics[i].risk_score]
    IN  [weak_topics |-> sorted,
         focus_areas |-> [i \in 1..Min2(3, Len(sorted)) |-> sorted[i].topic_id],
         intervention_priority_score |->
             IF risk_scores = <<>> THEN 0 ELSE Mean(risk_scores)]

\* what analyze_weaknesses gives its caller.  request_kind: "model", a
\* WeaknessAnalysisRequest; "dict", a plain dict, which has no attribute user_id
AnalysisOf(request_kind, user_id) ==
    IF request_kind = "dict"
    THEN [NoAnalysis EXCEPT !.status = "raised", !.error = "AttributeError",
                            !.user_id = user_id]
    ELSE IF dbKind = "boolraises"
    THEN \* "if self.db and ..." on a database without bool()
         [NoAnalysis EXCEPT !.status = "raised", !.error = "NotImplementedError",
                            !.user_id = user_id]
    ELSE LET ranked ==
                 RankWeakTopics(WeakTopics(user_id, get_user_mastery_profile(user_id),
                                           dbKind = "truthy"))
         IN  [NoAnalysis EXCEPT
                !.status = "returned",
                !.user_id = user_id,
                !.weak_topics = ranked.weak_topics,
                !.focus_areas = ranked.focus_areas,
                !.intervention_priority_score = ranked.intervention_priority_score]

\* an analysis that also writes its verdict into the learner's mastery records
analyze_weaknesses_annotating(user_id) ==
    LET a == AnalysisOf("model", user_id)
    IN  /\ calls < budget
        /\ calls' = calls + 1
        /\ analysis' = a
        /\ signalStore' =
               IF a.status = "returned" /\ HasCollection
               THEN StoreSignals(signalStore, user_id, a.weak_topics, now)
               ELSE signalStore
        /\ masteryStore' =
               [k \in Keys |->
                   IF k[1] = user_id /\ masteryStore[k].present
                   THEN [masteryStore[k] EXCEPT !.improvement_trend = "analysed"]
                   ELSE masteryStore[k]]
        /\ UNCHANGED <<budget, registry, reading, probe, tracing, dbKind, readinessModel, now, retentionStore, taskStore,
                       readinessStore, proc, masteryResult, retentionResult,
                       plan, prediction, simulation, submitted>>

\* WeaknessDetection.analyze_weaknesses, called through the API
analyze_weaknesses(user_id) ==
    LET a == AnalysisOf("model", user_id)
    IN  /\ calls < budget
        /\ calls' = calls + 1
        /\ analysis' = a
        /\ signalStore' =
               IF a.status = "returned" /\ HasCollection
               THEN StoreSignals(signalStore, user_id, a.weak_topics, now)
               ELSE signalStore
        /\ UNCHANGED <<budget, registry, reading, probe, tracing, dbKind, readinessModel, now, masteryStore, retentionStore, taskStore,
                       readinessStore, proc, masteryResult, retentionResult,
                       plan, prediction, simulation, submitted>>

(***************************************************************************)
(* Adaptive Planner (adaptive_planner.py).                                 *)
(***************************************************************************)
\* TOPIC_IMPORTANCE.get(topic_id, 0.6)
TopicImportance(topic_id) ==
    CASE topic_id = "data_structures" -> 950
      [] topic_id = "algorithms" -> 930
      [] topic_id = "system_design" -> 850
      [] topic_id = "databases" -> 700
      [] topic_id = "oop" -> 650
      [] topic_id = "networking" -> 500
      [] OTHER -> 600

\* TASK_TIMES.get(task_type, 45)
TaskTime(task_type) ==
    CASE task_type = "practice" -> 45
      [] task_type = "study" -> 30
      [] task_type = "revision" -> 20
      [] task_type = "mock_interview" -> 120
      [] OTHER -> 45

\* the daily_study_minutes a request may carry (any int)
Budgets == {-10, 0, 30, 60, 120}

_calculate_learning_gain(mastery, topic_importance, retention_level, difficulty_match) ==
    LET mastery_gap == 1000 - mastery
        learning_multiplier ==
            IF Lt(retention_level, 500) THEN 1500
            ELSE IF Gt(difficulty_match, 700) THEN 1200
            ELSE 1000
    IN  IF mastery = NaN THEN Clip(NaN, 0, 1000)
        ELSE Clip(Round(Round(mastery_gap * topic_importance, 1000)
                        * learning_multiplier, 1000), 0, 1000)

_calculate_task_priority(learning_gain, urgency, mastery) ==
    LET priority == Round(600 * learning_gain + 400 * urgency, 1000)
    IN  IF learning_gain = NaN THEN Clip(NaN, 0, 1000)
        ELSE Clip(IF Lt(mastery, 400) THEN Round(priority * 1300, 1000)
                  ELSE priority,
                  0, 1000)

\* one entry of task_candidates
Candidate(topic, retention, focus_areas) ==
    LET mastery == topic.mastery
        in_focus == \E i \in 1..Len(focus_areas) : focus_areas[i] = topic.topic_id
        urgency ==
            IF in_focus THEN 900
            ELSE IF Lt(mastery, 500) THEN 700
            ELSE IF Lt(retention, 500) THEN 600
            ELSE 300
        task_type ==
            IF Lt(mastery, 400) THEN "study"
            ELSE IF Lt(mastery, 700) THEN "practice"
            ELSE IF Lt(retention, 700) THEN "revision"
            ELSE "mock_interview"
        difficulty ==
            IF Lt(mastery, 400) THEN "easy"
            ELSE IF Lt(mastery, 700) THEN "medium"
            ELSE "hard"
        difficulty_match ==
            IF mastery = NaN THEN NaN
            ELSE IF mastery < 400 THEN Round(1000 - mastery, 2)
            ELSE IF mastery < 700 THEN 1000 - Round(Abs(mastery - 700) * 1000, 300)
            ELSE 1000 - Round((1000 - mastery) * 500, 1000)
        learning_gain ==
            _calculate_learning_gain(mastery, TopicImportance(topic.topic_id),
                                     retention, difficulty_match)
    IN  [topic_id |-> topic.topic_id,
         task_type |-> task_type,
         difficulty |-> difficulty,
         priority |-> _calculate_task_priority(learning_gain, urgency, mastery),
         learning_gain |-> learning_gain,
         time_minutes |-> TaskTime(task_type)]

\* task_candidates.sort(key=priority, reverse=True): stable; a priority that
\* is not a number compares as a tie (exact for the lists of at most two
\* candidates a learner of this model has)
RECURSIVE InsertByPriority(_, _)
InsertByPriority(c, sorted) ==
    IF sorted = <<>> THEN <<c>>
    ELSE IF ~Lt(Head(sorted).priority, c.priority)
         THEN <<Head(sorted)>> \o InsertByPriority(c, Tail(sorted))
         ELSE <<c>> \o sorted

RECURSIVE SortByPriority(_)
SortByPriority(s) ==
    IF s = <<>> THEN <<>>
    ELSE InsertByPriority(s[Len(s)], SortByPriority(SubSeq(s, 1, Len(s) - 1)))

\* the selection loop of generate_adaptive_plan: tasks_today
RECURSIVE SelectTasks(_, _, _)
SelectTasks(candidates, total_time, daily_study_minutes) ==
    IF candidates = <<>> THEN <<>>
    ELSE IF total_time + Head(candidates).time_minutes <= daily_study_minutes
         THEN <<Head(candidates)>>
              \o SelectTasks(Tail(candidates),
                             total_time + Head(candidates).time_minutes,
                             daily_study_minutes)
         ELSE SelectTasks(Tail(candidates), total_time, daily_study_minutes)

\* total_time after the selection loop
TotalTime(tasks) == SumSeq([i \in 1..Len(tasks) |-> tasks[i].time_minutes])

NoPlan ==
    [status |-> "none", error |-> "none", user_id |-> "u1",
     daily_study_minutes |-> 0, total_study_minutes |-> 0, tasks_today |-> <<>>,
     weekly_focus |-> <<>>]

\* what generate_adaptive_plan gives its caller: it hands analyze_weaknesses a
\* plain dict, and whatever that call raises, it raises
PlanOf(user_id, daily_study_minutes) ==
    LET weakness_analysis == AnalysisOf("dict", user_id)
        base == [NoPlan EXCEPT !.user_id = user_id,
                               !.daily_study_minutes = daily_study_minutes]
    IN  IF weakness_analysis.status = "raised"
        THEN [base EXCEPT !.status = "raised", !.error = weakness_analysis.error]
        ELSE IF dbKind = "boolraises"
        THEN [base EXCEPT !.status = "raised", !.error = "NotImplementedError"]
        ELSE LET topics == get_user_mastery_profile(user_id)
                 task_candidates ==
                     SortByPriority(
                         [i \in 1..Len(topics) |->
                            Candidate(topics[i],
                                      RetentionOf(user_id, topics[i].topic_id,
                                                  dbKind = "truthy"),
                                      weakness_analysis.focus_areas)])
                 tasks_today == SelectTasks(task_candidates, 0, daily_study_minutes)
             IN  [base EXCEPT
                    !.status = "returned",
                    !.total_study_minutes = TotalTime(tasks_today),
                    !.tasks_today = tasks_today,
                    !.weekly_focus = weakness_analysis.focus_areas]

\* AdaptivePlanner.generate_adaptive_plan
generate_adaptive_plan(user_id, daily_study_minutes) ==
    LET weakness_analysis == AnalysisOf("dict", user_id)
        result == PlanOf(user_id, daily_study_minutes)
    IN  /\ calls < budget
        /\ calls' = calls + 1
        /\ plan' = result
        /\ signalStore' =
               IF weakness_analysis.status = "returned" /\ HasCollection
               THEN StoreSignals(signalStore, user_id,
                                 weakness_analysis.weak_topics, now)
               ELSE signalStore
        /\ taskStore' =
               IF result.status = "returned" /\ HasCollection
               THEN taskStore \o [i \in 1..Len(result.tasks_today) |->
                                    [userId |-> user_id,
                                     topicId |-> result.tasks_today[i].topic_id,
                                     scheduledDate |-> now]]
               ELSE taskStore
        /\ UNCHANGED <<budget, registry, reading, probe, tracing, dbKind, readinessModel, now, masteryStore, retentionStore, readinessStore,
                       proc, masteryResult, retentionResult, analysis,
                       prediction, simulation, submitted>>

(***************************************************************************)
(* Readiness Predictor (readiness_model.py).                               *)
(***************************************************************************)
\* the largest r with r * r <= n
RECURSIVE SqrtBetween(_, _, _)
SqrtBetween(n, lo, hi) ==
    IF lo >= hi THEN lo
    ELSE LET mid == (lo + hi + 1) \div 2
         IN  IF mid * mid <= n THEN SqrtBetween(n, mid, hi)
             ELSE SqrtBetween(n, lo, mid - 1)

Sqrt(n) == SqrtBetween(n, 0, 46340)

\* np.std
Std(s) ==
    LET m == Mean(s)
    IN  Sqrt(Mean([i \in 1..Len(s) |-> (s[i] - m) * (s[i] - m)]))

\* 100 / (1 + exp(-z)), z in milli-units, the result in milli-points
Logistic100(z) ==
    IF z >= 0
    THEN Round(100000 * 1000, 1000 + ExpNeg(z))
    ELSE Round(100000 * ExpNeg(-z), 1000 + ExpNeg(-z))

\* what a loaded regressor may answer for a feature vector: any float
ModelOutputs == {-200, 0, 640, 1000, 1700}

\* self.model.predict(features_batch)[0]: an answer, or an exception
ModelAnswers ==
    {[raised |-> FALSE, value |-> v] : v \in ModelOutputs}
    \cup {[raised |-> TRUE, value |-> 0]}

\* _extract_features over the profile and the revision documents read
\* (a revision document has no "stability" field: each counts 3.0)
_extract_features(topics, retention_docs) ==
    LET masteries == [i \in 1..Len(topics) |-> topics[i].mastery]
        avg_mastery == IF masteries = <<>> THEN 0 ELSE Mean(masteries)
        stability_score == IF retention_docs = 0 THEN 0 ELSE 3000
        total_topics == Len(masteries)
        improving_count ==
            Cardinality({i \in 1..Len(topics) : topics[i].trend = "improving"})
        completed == Cardinality({i \in 1..Len(topics) : topics[i].mastery > 600})
    IN  << avg_mastery,
           Round(stability_score, 30),
           Round(improving_count * 1000, Max2(total_topics, 1)),
           500,
           500,
           Round(completed * 1000, Max2(total_topics, 1)),
           Min2(Round(30 * 1000, 60), 1000) >>

FallbackWeights == <<250, 150, 150, 150, 150, 100, 50>>

\* _fallback_prediction: <<readiness in milli-points, confidence>>
_fallback_prediction(features) ==
    LET weighted_score ==
            Round(SumSeq([i \in 1..7 |-> features[i] * FallbackWeights[i]]), 1000)
    IN  << Logistic100(10 * (weighted_score - 500)),
           Clip(1000 - Round(Std(features) * 500, 1000), 300, 950) >>

\* the passing probability predict_readiness derives from its readiness score
\* (milli-points): 1 / (1 + exp(-5 * (readiness_score / 100 - 0.5))), clipped
\* to [0, 1].  passing_threshold = 0.7 is assigned and never read
probability_passing(readiness_score) ==
    Clip(Round(Logistic100(5 * (Round(readiness_score, 100) - 500)), 100), 0, 1000)

\* the module imports datetime alone: the name timedelta, used for
\* readiness_date, is not defined
TimedeltaImported == FALSE

NoPrediction ==
    [status |-> "none", error |-> "none", user_id |-> "u1", used_model |-> FALSE,
     computed_score |-> 0, computed_confidence |-> 0,
     readiness_score |-> 0, confidence_score |-> 0, time_to_readiness_days |-> 0]

\* the documents of the user in db.revision_schedule
RetentionDocs(user_id) ==
    Cardinality({k \in Keys : k[1] = user_id /\ retentionStore[k].present})

\* what predict_readiness gives its caller.  model_answer: what the loaded
\* regressor would answer
PredictionOf(user_id, model_answer) ==
    LET base == [NoPrediction EXCEPT !.user_id = user_id]
        \* self.db.collection holds no document: the profile read is empty
        topics == <<>>
        features ==
            _extract_features(topics,
                              IF dbKind = "truthy" THEN RetentionDocs(user_id) ELSE 0)
        use_model == readinessModel = "loaded" /\ ~model_answer.raised
        fallback == _fallback_prediction(features)
        readiness_score == IF use_model THEN model_answer.value * 100 ELSE fallback[1]
        confidence == IF use_model THEN 850 ELSE fallback[2]
        gap == Max2(0, 80000 - readiness_score)
        computed == [base EXCEPT !.used_model = use_model,
                                 !.computed_score = readiness_score,
                                 !.computed_confidence = confidence]
    IN  IF dbKind = "boolraises"
        THEN [base EXCEPT !.status = "raised", !.error = "NotImplementedError"]
        ELSE IF ~TimedeltaImported
        THEN [computed EXCEPT !.status = "raised", !.error = "NameError"]
        ELSE [computed EXCEPT !.status = "returned",
                              !.readiness_score = readiness_score,
                              !.confidence_score = confidence,
                              !.time_to_readiness_days = gap \div 2000]

NoReadiness == [present |-> FALSE, readinessScore |-> 0, confidenceScore |-> 0]

\* ReadinessModel.predict_readiness
predict_readiness(user_id, model_answer) ==
    LET result == PredictionOf(user_id, model_answer)
    IN  /\ calls < budget
        /\ calls' = calls + 1
        /\ prediction' = result
        /\ readinessStore' =
               IF result.status = "returned" /\ HasCollection
               THEN [readinessStore EXCEPT ![user_id] =
                       [present |-> TRUE,
                        readinessScore |-> result.readiness_score,
                        confidenceScore |-> result.confidence_score]]
               ELSE readinessStore
        /\ UNCHANGED <<budget, registry, reading, probe, tracing, dbKind, readinessModel, now, masteryStore, retentionStore,
                       signalStore, taskStore, proc, masteryResult,
                       retentionResult, analysis, plan, simulation, submitted>>

\* ReadinessModel.initialize, when the registry holds a trained artifact
initialize ==
    /\ readinessModel = "none"
    /\ readinessModel' = "loaded"
    /\ UNCHANGED <<budget, registry, reading, probe, tracing, dbKind, now, calls, stores, proc, masteryResult,
                   retentionResult, analysis, plan, prediction, simulation,
                   submitted>>

\* initialize_ml_services at FastAPI startup, with a trained readiness artifact
\* in the registry's directory: the registry loads it, then the services are
\* constructed (ReadinessModel.__init__ sets self.model = None)
initialize_ml_services ==
    /\ registry = "unloaded"
    /\ registry' = "loaded"
    /\ readinessModel' = "none"
    /\ UNCHANGED <<budget, reading, probe, tracing, dbKind, now, calls, stores, proc,
                   masteryResult, retentionResult, analysis, plan, prediction,
                   simulation, submitted>>

\* the passing-probability lines of predict_readiness, applied to a readiness
\* score
apply_probability_passing ==
    /\ probe.fn = "probability_passing"
    /\ ~probe.done
    /\ probe' = [probe EXCEPT !.y = probability_passing(probe.x), !.done = TRUE]
    /\ UNCHANGED <<budget, registry, reading, tracing, dbKind, readinessModel, now,
                   calls, stores, proc, masteryResult, retentionResult, analysis,
                   plan, prediction, simulation, submitted>>

\* WeaknessDetection._determine_signal_type, applied to the gaps of a topic
apply_determine_signal_type ==
    /\ probe.fn = "_determine_signal_type"
    /\ ~probe.done
    /\ probe' =
           [probe EXCEPT
              !.y = _determine_signal_type(probe.x.mastery_gap,
                                           probe.x.retention_risk,
                                           probe.x.difficulty_gap),
              !.done = TRUE]
    /\ UNCHANGED <<budget, registry, reading, tracing, dbKind, readinessModel, now,
                   calls, stores, proc, masteryResult, retentionResult, analysis,
                   plan, prediction, simulation, submitted>>

\* the ranking of analyze_weaknesses, applied to the weak topics collected
apply_ranking ==
    /\ probe.fn = "RankWeakTopics"
    /\ ~probe.done
    /\ probe' = [probe EXCEPT !.y = RankWeakTopics(probe.x), !.done = TRUE]
    /\ UNCHANGED <<budget, registry, reading, tracing, dbKind, readinessModel, now,
                   calls, stores, proc, masteryResult, retentionResult, analysis,
                   plan, prediction, simulation, submitted>>

\* EbbinghausForgettingCurve.update_stability, applied to one stability with
\* each of two retentions at review time
apply_update_stability ==
    /\ probe.fn = "update_stability"
    /\ ~probe.done
    /\ probe' =
           [probe EXCEPT
              !.y = << update_stability(probe.x.current_stability,
                                        probe.x.successful, probe.x.lower),
                       update_stability(probe.x.current_stability,
                                        probe.x.successful, probe.x.higher) >>,
              !.done = TRUE]
    /\ UNCHANGED <<budget, registry, reading, tracing, dbKind, readinessModel, now,
                   calls, stores, proc, masteryResult, retentionResult, analysis,
                   plan, prediction, simulation, submitted>>

(***************************************************************************)
(* Scenario Simulator (simulator.py).                                      *)
(***************************************************************************)
Scenario(h, f, d, c) ==
    [daily_study_hours |-> h, focus_topics |-> f, timeline_days |-> d,
     consistency |-> c]

Scenarios ==
    { Scenario(2, {"trees"}, 2, "high"),
      Scenario(40, {"trees", "algorithms"}, 3, "medium"),
      Scenario(0, {}, 0, "low"),
      Scenario(8, {"algorithms"}, 2, "erratic") }

\* consistency_factor of run_simulation
ConsistencyFactor(consistency) ==
    CASE consistency = "high" -> 1200
      [] consistency = "medium" -> 1000
      [] consistency = "low" -> 700
      [] OTHER -> 1000

\* new_mastery of run_simulation for one topic: every day it is computed from
\* the mastery of the profile
NewMastery(topic, scenario) ==
    LET consistency_factor == ConsistencyFactor(scenario.consistency)
        study_factor == scenario.daily_study_hours * 500
        daily_improvement ==
            IF topic.topic_id \in scenario.focus_topics
            THEN Round(Round(20 * study_factor, 1000) * consistency_factor, 1000)
            ELSE Round(5 * consistency_factor, 1000)
    IN  IF topic.mastery = NaN THEN PyMin(1000, NaN)
        ELSE PyMin(1000, topic.mastery + daily_improvement)

\* one value of projected_readiness_trajectory, in milli-points
DailyReadiness(topics, scenario) ==
    Round(SumSeq([i \in 1..Len(topics) |-> NewMastery(topics[i], scenario)]) * 100,
          Len(topics))

\* a completion loop that falls back to the end of the horizon
RECURSIVE CompletionIndex_horizon(_, _)
CompletionIndex_horizon(trajectory, idx) ==
    IF idx > Len(trajectory) THEN Len(trajectory)
    ELSE IF trajectory[idx] >= 80000 THEN idx - 1
    ELSE CompletionIndex_horizon(trajectory, idx + 1)

\* a completion loop without its break: the last day of at least 80 is kept
RECURSIVE CompletionIndex_last(_, _)
CompletionIndex_last(trajectory, idx) ==
    IF idx > Len(trajectory) THEN 0
    ELSE LET later == CompletionIndex_last(trajectory, idx + 1)
         IN  IF later > 0 THEN later
             ELSE IF trajectory[idx] >= 80000 THEN idx - 1 ELSE 0

\* the days (from 0) until the first trajectory value of at least 80; 0 when
\* there is none
RECURSIVE CompletionIndex(_, _)
CompletionIndex(trajectory, idx) ==
    IF idx > Len(trajectory) THEN 0
    ELSE IF trajectory[idx] >= 80000 THEN idx - 1
    ELSE CompletionIndex(trajectory, idx + 1)

NoSimulation ==
    [status |-> "none", user_id |-> "u1", scenario |-> Scenario(0, {}, 0, "low"),
     profile |-> <<>>, projected_readiness_trajectory |-> <<>>,
     projected_mastery_curves |-> <<>>, completion_days |-> 0,
     confidence_score |-> 0]

\* what run_simulation gives its caller
SimulationOf(user_id, scenario) ==
    LET topics == get_user_mastery_profile(user_id)
        days == IF scenario.timeline_days > 0 THEN scenario.timeline_days ELSE 0
        trajectory ==
            IF topics = <<>> THEN <<>>
            ELSE [d \in 1..days |-> DailyReadiness(topics, scenario)]
    IN  [status |-> "returned",
         user_id |-> user_id,
         scenario |-> scenario,
         profile |-> topics,
         projected_readiness_trajectory |-> trajectory,
         projected_mastery_curves |->
             [i \in 1..Len(topics) |->
                [topic_id |-> topics[i].topic_id,
                 curve |-> [d \in 1..days |-> NewMastery(topics[i], scenario)]]],
         completion_days |-> CompletionIndex(trajectory, 1),
         confidence_score |->
             Min2(950, 700 + Round(ConsistencyFactor(scenario.consistency) * 200,
                                   1000))]

\* a simulator that writes the first projected day back to the estimates
run_simulation_persisting(user_id, scenario) ==
    /\ calls < budget
    /\ calls' = calls + 1
    /\ simulation' = SimulationOf(user_id, scenario)
    /\ masteryStore' =
           [k \in Keys |->
              IF k[1] = user_id /\ masteryStore[k].present
              THEN [masteryStore[k] EXCEPT
                      !.mastery_probability =
                          NewMastery([topic_id |-> k[2], mastery |-> @], scenario)]
              ELSE masteryStore[k]]
    /\ UNCHANGED <<budget, registry, reading, probe, tracing, dbKind, readinessModel, now, retentionStore,
                   signalStore, taskStore, readinessStore, proc, masteryResult,
                   retentionResult, analysis, plan, prediction, submitted>>

\* PreparationSimulator.run_simulation
run_simulation(user_id, scenario) ==
    /\ calls < budget
    /\ calls' = calls + 1
    /\ simulation' = SimulationOf(user_id, scenario)
    /\ UNCHANGED <<budget, registry, reading, probe, tracing, dbKind, readinessModel, now, stores, proc, masteryResult,
                   retentionResult, analysis, plan, prediction, submitted>>

(***************************************************************************)
(* The system.                                                             *)
(***************************************************************************)
\* no formula has been applied
NoProbe == [fn |-> "none", x |-> 0, y |-> 0, done |-> FALSE]

\* the service objects after construction
ServicesConstructed ==
    /\ dbKind \in DbKinds
    /\ readinessModel = "none"
    /\ now = 0
    /\ calls = 0
    /\ masteryStore = [k \in Keys |-> NoMastery]
    /\ retentionStore = [k \in Keys |-> NoRetention]
    /\ signalStore = [k \in Keys |-> NoSignal]
    /\ taskStore = <<>>
    /\ readinessStore = [u \in Users |-> NoReadiness]
    /\ proc = [p \in Procs |-> IdleProc]
    /\ masteryResult = [p \in Procs |-> NoMasteryResult]
    /\ retentionResult = [p \in Procs |-> NoRetentionResult]
    /\ analysis = NoAnalysis
    /\ plan = NoPlan
    /\ prediction = NoPrediction
    /\ simulation = NoSimulation
    /\ submitted = [k \in Keys |-> 0]
    /\ reading = NoReading

\* the services, and no formula under study
Constructed == ServicesConstructed /\ probe = NoProbe

\* the engine after startup, admitting MaxCalls handler calls
EngineStart ==
    /\ Constructed
    /\ registry = "loaded"
    /\ budget = MaxCalls

Init == EngineStart /\ tracing = NotTracing

\* the repeated attempt and the probability it starts from; no store is involved
InitTracing ==
    /\ EngineStart
    /\ dbKind = "none"
    /\ tracing \in
           { [attempt |-> Attempt(c, d, h), prior |-> p0, posterior |-> p0,
              attempts |-> 0] :
                 c \in BOOLEAN, d \in Difficulties, h \in HintsUsed,
                 p0 \in StartProbabilities }

\* a new request takes the first free process
FirstIdle(p) == p = "p1" \/ proc["p1"].pc # "idle"

\* update_mastery requests of the callers P, for the keys K, carrying the
\* batches B; a caller's next request waits for its previous one to end
MasteryCalls(P, K, B) ==
    \/ \E p \in P, k \in K, b \in B :
           FirstIdle(p) /\ update_mastery_find_one(p, k, b)
    \/ \E p \in P : update_mastery_update_one(p)

\* update_retention requests of the callers P, for the keys K, carrying the
\* hours H
RetentionCalls(P, K, H) ==
    \/ \E p \in P, k \in K, ok \in BOOLEAN, h \in H :
           FirstIdle(p) /\ update_retention_find_one(p, k, ok, h)
    \/ \E p \in P : update_retention_update_one(p)

\* one caller: its requests come one after the other
InTurn == {"p1"}

\* one learner's keys
KeysOf(user_id) == {k \in Keys : k[1] = user_id}

\* the Mastery Estimator under concurrent requests
NextMastery == MasteryCalls(Procs, Keys, Batches)

SpecMastery == Init /\ [][NextMastery]_vars

\* the Retention Estimator as time passes
NextRetention == RetentionCalls(InTurn, Keys, HoursSent) \/ Tick

SpecRetention == Init /\ [][NextRetention]_vars

\* both estimators under concurrent requests for any keys
NextUpdates ==
    \/ MasteryCalls(Procs, Keys, {<<>>, <<Attempt(TRUE, 1, 0)>>})
    \/ RetentionCalls(Procs, Keys, {48, -60000})

SpecUpdates == Init /\ [][NextUpdates]_vars

\* the estimators and the Weakness Detector over one learner's records
NextEstimators ==
    \/ MasteryCalls(InTurn, KeysOf("u1"), Batches)
    \/ RetentionCalls(InTurn, KeysOf("u1"), HoursSent)
    \/ \E u \in Users : analyze_weaknesses(u)
    \/ Tick

SpecEstimators == Init /\ [][NextEstimators]_vars

\* the Adaptive Planner over the estimates
NextPlanner ==
    \/ MasteryCalls(InTurn, Keys, Batches)
    \/ \E u \in Users, m \in Budgets : generate_adaptive_plan(u, m)

SpecPlanner == Init /\ [][NextPlanner]_vars

\* the Readiness Predictor over the estimates
NextReadiness ==
    \/ RetentionCalls(InTurn, Keys, HoursSent)
    \/ initialize
    \/ \E u \in Users, a \in ModelAnswers : predict_readiness(u, a)

SpecReadiness == Init /\ [][NextReadiness]_vars

\* the Scenario Simulator over the estimates
NextSimulator ==
    \/ MasteryCalls(InTurn, Keys, Batches)
    \/ \E u \in Users, sc \in Scenarios : run_simulation(u, sc)

SpecSimulator == Init /\ [][NextSimulator]_vars

\* the estimate under repeated identical attempts
NextBKT == bkt_update

SpecBKT == InitTracing /\ [][NextBKT]_vars

\* the whole engine
Next ==
    \/ MasteryCalls(Procs, Keys, Batches)
    \/ RetentionCalls(Procs, Keys, HoursSent)
    \/ \E u \in Users : analyze_weaknesses(u)
    \/ Tick
    \/ \E u \in Users, m \in Budgets : generate_adaptive_plan(u, m)
    \/ initialize
    \/ \E u \in Users, a \in ModelAnswers : predict_readiness(u, a)
    \/ \E u \in Users, sc \in Scenarios : run_simulation(u, sc)

Spec == Init /\ [][Next]_vars

\* the process before startup: the handlers are not served yet
InitDown ==
    /\ Constructed
    /\ registry = "unloaded"
    /\ budget = MaxCalls
    /\ tracing = NotTracing

\* the answers of a regressor whose inference does not fail
ModelValues == {a \in ModelAnswers : ~a.raised}

\* startup, then the Readiness Predictor as the API serves it
NextStartup ==
    \/ initialize_ml_services
    \/ registry = "loaded" /\ RetentionCalls(InTurn, Keys, HoursSent)
    \/ registry = "loaded" /\ \E u \in Users, a \in ModelValues : predict_readiness(u, a)

SpecStartup == InitDown /\ [][NextStartup]_vars

\* the readiness scores of the 0-100 scale, in half points (milli-points)
PassingScores == {500 * i : i \in 0..(2 * MaxScore)}

\* a readiness score about to go through the passing-probability formula
InitPassing ==
    /\ ServicesConstructed
    /\ registry = "loaded"
    /\ budget = MaxCalls
    /\ tracing = NotTracing
    /\ \E x \in PassingScores :
           probe = [fn |-> "probability_passing", x |-> x, y |-> 0, done |-> FALSE]

NextPassing == apply_probability_passing

SpecPassing == InitPassing /\ [][NextPassing]_vars

\* two reviews of one record that differ in the retention at review time
\* (stability in milli-days, retention in milli-units)
StabilityInputs ==
    {[fn |-> "update_stability",
      x |-> [current_stability |-> c, successful |-> ok, lower |-> lo, higher |-> hi],
      y |-> <<0, 0>>, done |-> FALSE] :
        c \in {1000, 3000, 10000, 30000}, ok \in BOOLEAN,
        lo \in {0, 200, 500, 900, 1000}, hi \in {200, 500, 900, 1000}}

\* the three gaps of a topic (milli-units), about to be classified
GapInputs ==
    {[fn |-> "_determine_signal_type",
      x |-> [mastery_gap |-> m, retention_risk |-> r, difficulty_gap |-> d],
      y |-> "none", done |-> FALSE] :
        m \in {0, 300, 400, 800, 1000}, r \in {0, 800, 900, 950},
        d \in {0, 300, 400, 800, 1000}}

\* the topics above the risk floor, as the loop of analyze_weaknesses collects
\* them: up to MaxWeakTopics topics, each with a risk score in milli-points
RiskLists ==
    UNION {[1..n -> {25000, 40000, 70000}] : n \in 0..MaxWeakTopics}

RankingInputs ==
    {[fn |-> "RankWeakTopics",
      x |-> [i \in 1..Len(r) |-> [topic_id |-> i, risk_score |-> r[i]]],
      y |-> [weak_topics |-> <<>>, focus_areas |-> <<>>,
             intervention_priority_score |-> 0],
      done |-> FALSE] : r \in RiskLists}

\* the services constructed, and one formula about to be applied
InitFormulas ==
    /\ ServicesConstructed
    /\ registry = "loaded"
    /\ budget = MaxCalls
    /\ tracing = NotTracing
    /\ \/ probe \in StabilityInputs
       \/ probe \in GapInputs
       \/ probe \in RankingInputs

NextFormulas ==
    \/ apply_update_stability
    \/ apply_determine_signal_type
    \/ apply_ranking

SpecFormulas == InitFormulas /\ [][NextFormulas]_vars

\* the read accessors, each with the store answering or failing
ReadCalls(U) ==
    \/ \E u \in U, t \in Topics, f \in BOOLEAN : get_mastery(u, t, f)
    \/ \E u \in U, f \in BOOLEAN : get_mastery_profile(u, f)
    \/ \E u \in U, f \in BOOLEAN : get_revision_queue(u, f)
    \/ \E u \in U, f \in BOOLEAN : get_retention_snapshot(u, f)

\* update requests on which the store fails, at the read or at the write
FailingCalls(P, K, B, H) ==
    \/ \E p \in P, k \in K, b \in B :
           FirstIdle(p) /\ update_mastery_find_one_fails(p, k, b)
    \/ \E p \in P : update_mastery_update_one_fails(p)
    \/ \E p \in P, k \in K, ok \in BOOLEAN, h \in H :
           FirstIdle(p) /\ update_retention_find_one_fails(p, k, ok, h)
    \/ \E p \in P : update_retention_update_one_fails(p)

\* the estimators and their read accessors over a store that may fail
NextFailures ==
    \/ MasteryCalls(InTurn, KeysOf("u1"), {<<Attempt(TRUE, 1, 0)>>})
    \/ RetentionCalls(InTurn, KeysOf("u1"), {48})
    \/ FailingCalls(InTurn, KeysOf("u1"), {<<Attempt(TRUE, 1, 0)>>}, {48})
    \/ ReadCalls({"u1"})

SpecFailures == Init /\ [][NextFailures]_vars

\* the engine after startup, admitting MaxAnalysisCalls handler calls
InitSignals ==
    /\ Constructed
    /\ registry = "loaded"
    /\ budget = MaxAnalysisCalls
    /\ tracing = NotTracing

\* the batches whose every difficulty is a number
NumericBatches ==
    {b \in Batches : \A i \in 1..Len(b) : b[i].difficulty # NaN}

\* one learner's estimates change between the runs of the Weakness Detector
NextSignals ==
    \/ MasteryCalls(InTurn, KeysOf("u1"), NumericBatches)
    \/ \E u \in Users : analyze_weaknesses(u)

SpecSignals == InitSignals /\ [][NextSignals]_vars

\* revisions are recorded and the revision queue is read, as days pass
NextQueue ==
    \/ RetentionCalls(InTurn, Keys, {48, 1000})
    \/ \E u \in Users : get_revision_queue(u, FALSE)
    \/ Tick

SpecQueue == Init /\ [][NextQueue]_vars

\* one record revised again and again, at once or after a day
NextRevisions ==
    \/ RetentionCalls(InTurn, {<<"u1", "trees">>}, {0, 48, 1000, NaN})
    \/ Tick

SpecRevisions == InitSignals /\ [][NextRevisions]_vars

\* the Weakness Detector over two learners' mastery and retention records
NextDetector ==
    \/ MasteryCalls(InTurn, {<<"u1", "trees">>, <<"u2", "trees">>},
                    {<<Attempt(TRUE, 1, 0)>>, <<Attempt(FALSE, 1, 0)>>})
    \/ RetentionCalls(InTurn, {<<"u1", "trees">>, <<"u2", "trees">>}, {1000})
    \/ \E u \in Users : analyze_weaknesses(u)

SpecDetector == InitSignals /\ [][NextDetector]_vars

(***************************************************************************)
(* The claims of the specification, checked against the model.             *)
(***************************************************************************)
\* no call is between its find_one and its update_one
Quiescent == \A p \in Procs : proc[p].pc = "idle"

\* the driver's database and collection objects allow truth-value testing
TruthTestable == dbKind # "boolraises"

\* C1: update_mastery calls for one (learner, topic) are serialized: once no
\* call is in flight, the stored attempts_count of every key is the previous
\* count plus the sizes of all the batches written for it, so that no batch of
\* two overlapping calls is lost.
C1_OverlappingUpdatesSerialized ==
    Quiescent =>
        \A k \in Keys :
            masteryStore[k].present => masteryStore[k].attempts_count = submitted[k]

\* C2: every generate_adaptive_plan call, for every mastery profile and every
\* daily_study_minutes, returns a plan whose tasks' estimated_time_minutes sum
\* to at most daily_study_minutes and whose total_study_minutes is that sum.
C2_PlanWithinBudget ==
    plan.status # "none" =>
        /\ plan.status = "returned"
        /\ TotalTime(plan.tasks_today) <= plan.daily_study_minutes
        /\ plan.total_study_minutes = TotalTime(plan.tasks_today)

\* C3: update_mastery for a (learner, topic) with no prior record never
\* raises: whatever the attempt list, of any length from zero upward, the call
\* takes 0.1 as the prior and returns a mastery result.
C3_ColdStartNeverRaises ==
    TruthTestable =>
        \A p \in Procs :
            (masteryResult[p].status # "none" /\ ~masteryResult[p].had_record) =>
                /\ masteryResult[p].status = "returned"
                /\ masteryResult[p].prior = P_INIT

\* C4: with no trained model loaded, predict_readiness returns a prediction
\* for every learner, without raising, and its score is the one of the
\* fallback formula.
C4_FallbackPredictionReturns ==
    (TruthTestable /\ readinessModel = "none" /\ prediction.status # "none") =>
        /\ prediction.status = "returned"
        /\ prediction.readiness_score =
               _fallback_prediction(
                   _extract_features(<<>>,
                                     IF dbKind = "truthy"
                                     THEN RetentionDocs(prediction.user_id)
                                     ELSE 0))[1]

\* a probability: a number from 0 to 1
InUnit(x) == x # NaN /\ 0 <= x /\ x <= 1000

\* a score: a number from 0 to 100
InPercent(x) == x # NaN /\ 0 <= x /\ x <= 100000

\* C5: after any sequence of update_mastery, update_retention and
\* analyze_weaknesses calls with arbitrary inputs, every returned and every
\* stored mastery_probability, retention_probability and mastery confidence
\* lies in [0,1], and every risk_score in [0,100].
C5_EstimatesWithinBounds ==
    /\ \A p \in Procs :
           /\ masteryResult[p].status = "returned" =>
                  /\ InUnit(masteryResult[p].mastery_probability)
                  /\ InUnit(masteryResult[p].confidence_score)
           /\ retentionResult[p].status = "returned" =>
                  InUnit(retentionResult[p].retention_probability)
    /\ \A k \in Keys :
           /\ masteryStore[k].present =>
                  /\ InUnit(masteryStore[k].mastery_probability)
                  /\ InUnit(masteryStore[k].confidence_score)
           /\ retentionStore[k].present =>
                  InUnit(retentionStore[k].retention_probability)
           /\ signalStore[k].present => InPercent(signalStore[k].riskScore)
    /\ \A i \in 1..Len(analysis.weak_topics) :
           InPercent(analysis.weak_topics[i].risk_score)

\* C6: the readiness_score predict_readiness computes, which is the one it
\* goes on to persist and return, lies in [0,100] on both prediction paths: a
\* trained model's raw output below 0 or above 1 is clamped into the range.
C6_ReadinessScoreWithinBounds ==
    /\ prediction.status # "none" => InPercent(prediction.computed_score)
    /\ prediction.status = "returned" => InPercent(prediction.readiness_score)
    /\ \A u \in Users :
           readinessStore[u].present => InPercent(readinessStore[u].readinessScore)

\* a number of days from 1 to 30, in milli-days
InDays(x) == 1000 <= x /\ x <= 30000

ValidWeight(attempt) == attempt.difficulty # NaN /\ attempt.difficulty >= 0

C9_Step ==
    /\ \A k \in Keys :
           masteryStore'[k] # masteryStore[k] =>
               \E p \in Procs :
                   /\ proc[p].pc = "update_mastery"
                   /\ proc[p].key = k
                   /\ proc'[p].pc = "idle"
                   /\ masteryStore'[k] =
                          MasteryUpdateData(proc[p].current_mastery,
                                            proc[p].attempts, proc[p].at)
    /\ \A k \in Keys :
           retentionStore'[k] # retentionStore[k] =>
               \E p \in Procs :
                   /\ proc[p].pc = "update_retention"
                   /\ proc[p].key = k
                   /\ proc'[p].pc = "idle"
                   /\ retentionStore'[k] =
                          RetentionUpdateData(
                              proc[p].current_retention,
                              proc[p].is_successful_revision,
                              retention_probability(
                                  proc[p].time_since_last,
                                  CurrentStability(proc[p].current_retention)).value,
                              proc[p].at)
    /\ Cardinality({k \in Keys : masteryStore'[k] # masteryStore[k]})
       + Cardinality({k \in Keys : retentionStore'[k] # retentionStore[k]}) <= 1
    /\ UNCHANGED <<signalStore, taskStore, readinessStore>>

C9_UpdatesWriteOwnKeyOnly == [][C9_Step]_vars

\* C9's case: while p1's update for one key is between its read and its
\* write, p2's update for another key has read, written and returned
C9_Witness ==
    /\ proc["p1"].pc = "update_mastery"
    /\ ~masteryStore[proc["p1"].key].present
    /\ retentionResult["p2"].status = "returned"
    /\ retentionResult["p2"].key # proc["p1"].key
    /\ retentionStore[retentionResult["p2"].key].present
    /\ \A k \in Keys : k # retentionResult["p2"].key => ~retentionStore[k].present

\* C10: run_simulation performs no write: in every step that is a
\* run_simulation call the mastery, retention, weak-signal, task and readiness
\* stores are the same before and after, and the mastery profile it read is
\* the one any reader still gets.
C10_Step ==
    (\E u \in Users, sc \in Scenarios :
         /\ simulation' = SimulationOf(u, sc)
         /\ calls' = calls + 1
         /\ proc' = proc)
    => /\ UNCHANGED stores
       /\ \A u \in Users :
              get_user_mastery_profile(u)' = get_user_mastery_profile(u)
       /\ \A u \in Users :
              simulation'.user_id = u =>
                  simulation'.profile = get_user_mastery_profile(u)'

C10_SimulationWritesNothing == [][C10_Step]_vars

\* C10's case: a simulation of some days over a learner's stored estimates
\* has returned, and the estimates it read are still the stored ones
C10_Witness ==
    /\ simulation.status = "returned"
    /\ simulation.profile # <<>>
    /\ Len(simulation.projected_readiness_trajectory) >= 2
    /\ simulation.profile = get_user_mastery_profile(simulation.user_id)
    /\ \E k \in Keys : k[1] = simulation.user_id /\ masteryStore[k].present

\* the step is a run of analyze_weaknesses for user_id that returned and stored
AnalysisRun(user_id) ==
    /\ calls' = calls + 1
    /\ proc' = proc
    /\ analysis' = AnalysisOf("model", user_id)
    /\ analysis'.status = "returned"
    /\ HasCollection

\* the topics of the weak_topics list of an analysis
TopicsOf(weak_topics) == {weak_topics[i].topic_id : i \in 1..Len(weak_topics)}

\* C11: after each analyze_weaknesses run for a learner, the learner's
\* persisted weak signals are exactly the topics whose risk score computed in
\* that run exceeds the floor of 20: each is above the floor, and a topic an
\* earlier run persisted that is at or below the floor now is persisted no more.
C11_Step ==
    \A u \in Users :
        AnalysisRun(u) =>
            \A k \in KeysOf(u) :
                /\ signalStore'[k].present <=> k[2] \in TopicsOf(analysis'.weak_topics)
                /\ signalStore'[k].present => signalStore'[k].riskScore > RISK_FLOOR

C11_SignalsAreThisRunsWeakTopics == [][C11_Step]_vars

\* the step is a call of analyze_weaknesses for user_id, returning or raising
AnalysisCall(user_id) ==
    /\ calls' = calls + 1
    /\ proc' = proc
    /\ analysis' = AnalysisOf("model", user_id)

\* C12: analyze_weaknesses never writes to the mastery store or the retention
\* store: across every analysis run each mastery record and each retention
\* record is unchanged, and of the weak signals only the analysed learner's
\* own may differ.
C12_Step ==
    \A u \in Users :
        AnalysisCall(u) =>
            /\ masteryStore' = masteryStore
            /\ retentionStore' = retentionStore
            /\ \A k \in Keys : k[1] # u => signalStore'[k] = signalStore[k]

C12_AnalysisReadsEstimatesOnly == [][C12_Step]_vars

\* C12's case: an analysis has stored a weak signal for a topic whose mastery
\* record and retention record are both on file
C12_Witness ==
    /\ analysis.status = "returned"
    /\ analysis.weak_topics # <<>>
    /\ calls = 3
    /\ \E k \in KeysOf(analysis.user_id) :
           /\ signalStore[k].present
           /\ signalStore[k].riskScore = analysis.weak_topics[1].risk_score
           /\ masteryStore[k].present
           /\ retentionStore[k].present

\* the step is a call of generate_adaptive_plan for user_id with the budget m
PlanCall(user_id, m) ==
    /\ calls' = calls + 1
    /\ proc' = proc
    /\ plan' = PlanOf(user_id, m)

\* C13: generate_adaptive_plan, called for a learner whose mastery profile is
\* readable, completes without raising and returns a plan whose weekly_focus
\* is the focus-topic list the Weakness Detector's analysis produces for that
\* same learner.
C13_Step ==
    \A u \in Users, m \in Budgets :
        PlanCall(u, m) =>
            /\ plan'.status = "returned"
            /\ plan'.weekly_focus = AnalysisOf("model", u).focus_areas

C13_PlanCarriesAnalysisFocus == [][C13_Step]_vars

\* C14: after startup with a trained readiness artifact in the registry,
\* predict_readiness invokes the artifact and reports the trained-model
\* confidence 0.85; the fallback formula is for a missing artifact or a failed
\* inference only.
C14_StartupLoadsTrainedModel ==
    (registry = "loaded" /\ TruthTestable /\ prediction.status # "none") =>
        /\ prediction.used_model
        /\ prediction.computed_confidence = 850

\* C15: when the store fails during update_mastery or update_retention the
\* call raises to its caller and the stored records stay as they were; when it
\* fails during get_mastery, get_user_mastery_profile, get_revision_queue or
\* get_retention_snapshot the call does not raise and returns its no-data
\* value.
C15_Step ==
    /\ \A p \in Procs :
           (masteryResult'[p] # masteryResult[p]
            /\ masteryResult'[p].error = "StoreError") =>
               /\ masteryResult'[p].status = "raised"
               /\ UNCHANGED stores
    /\ \A p \in Procs :
           (retentionResult'[p] # retentionResult[p]
            /\ retentionResult'[p].error = "StoreError") =>
               /\ retentionResult'[p].status = "raised"
               /\ UNCHANGED stores
    /\ reading'.store_failed =>
           /\ reading'.status = "returned"
           /\ ~reading'.found
           /\ reading'.topics = <<>>
           /\ reading'.average_retention = 0
           /\ reading'.overdue_revisions = 0
           /\ reading' # reading => UNCHANGED stores

C15_UpdatesRaiseReadsDegrade == [][C15_Step]_vars

\* C15's case: the store failed at the write of an update for a key that has
\* a record, and then under a read of that learner's revision queue
C15_Witness ==
    /\ \E p \in Procs :
           /\ masteryResult[p].status = "raised"
           /\ masteryResult[p].error = "StoreError"
           /\ masteryResult[p].total_attempts > 0
           /\ masteryResult[p].had_record
           /\ masteryStore[masteryResult[p].key].present
           /\ masteryStore[masteryResult[p].key].attempts_count = 1
    /\ reading.op = "get_revision_queue"
    /\ reading.store_failed

\* C16: a successful revision never decreases stability and a failed one
\* never increases it: whatever the stored stability in [1,30] and the elapsed
\* time, zero included, the stability update_retention returns and stores
\* after a successful revision is at least the stability before, and after a
\* failed revision at most the stability before.
C16_Step ==
    /\ \A k \in Keys :
           retentionStore'[k] # retentionStore[k] =>
               IF retentionStore'[k].isSuccessful
               THEN retentionStore'[k].stability_score
                        >= CurrentStability(retentionStore[k])
               ELSE retentionStore'[k].stability_score
                        <= CurrentStability(retentionStore[k])
    /\ \A p \in Procs :
           (proc[p].pc = "update_retention" /\ retentionResult'[p].status = "returned") =>
               IF proc[p].is_successful_revision
               THEN retentionResult'[p].stability_score
                        >= CurrentStability(proc[p].current_retention)
               ELSE retentionResult'[p].stability_score
                        <= CurrentStability(proc[p].current_retention)

C16_SuccessNeverLowersStability == [][C16_Step]_vars

\* C16's case: a successful revision right after another, with no time
\* elapsed, on a record whose stability had already reached 30 days
C16_Witness ==
    /\ retentionStore[<<"u1", "trees">>].present
    /\ retentionStore[<<"u1", "trees">>].isSuccessful
    /\ retentionStore[<<"u1", "trees">>].revisionCount = 4
    /\ retentionStore[<<"u1", "trees">>].stability_score = 30000
    /\ retentionResult["p1"].status = "returned"
    /\ retentionResult["p1"].time_since_last = 0
    /\ now = 0

\* C17: once update_retention has recorded revisions for a learner's topics,
\* get_revision_queue for that learner returns a non-empty list, whose entries
\* carry the topic id and its retention.
C17_Step ==
    (/\ reading' # reading
     /\ reading'.op = "get_revision_queue"
     /\ HasCollection
     /\ \E k \in KeysOf(reading'.user_id) : retentionStore[k].present)
    => /\ reading'.status = "returned"
       /\ reading'.topics # <<>>
       /\ \A i \in 1..Len(reading'.topics) :
              /\ <<reading'.user_id, reading'.topics[i].topic_id>> \in Keys
              /\ reading'.topics[i].retention =
                     retentionStore[<<reading'.user_id,
                                      reading'.topics[i].topic_id>>].retention_probability

C17_QueueListsRecordedRevisions == [][C17_Step]_vars

\* C18: update_retention is a function of its inputs: the elapsed time its
\* retention probability is computed from is the hours_since_last_exposure the
\* request supplies, whether or not a previous revision is on record, so that
\* the same request against the same stored record gives the same retention
\* probability, stability and urgency.
C18_Step ==
    \A p \in Procs, k \in Keys, ok \in BOOLEAN, h \in HoursSent :
        update_retention_find_one(p, k, ok, h) =>
            proc'[p].time_since_last = h

C18_RetentionFromRequestHours == [][C18_Step]_vars

\* C19: probability_passing is a logistic function of the readiness score
\* centered at the pass threshold of 70: it is 0.5 at a readiness score of 70,
\* below 0.5 for every score under 70 and above 0.5 for every score over 70.
C19_PassingCenteredAtSeventy ==
    (probe.fn = "probability_passing" /\ probe.done) =>
        /\ probe.x = 70000 => probe.y = 500
        /\ probe.x < 70000 => probe.y < 500
        /\ probe.x > 70000 => probe.y > 500

\* the task sequence the planner's steps give for a mastery profile, the
\* retention records, a focus list and a budget
TasksFor(user_id, focus_areas, daily_study_minutes) ==
    LET topics == get_user_mastery_profile(user_id)
    IN  SelectTasks(
            SortByPriority(
                [i \in 1..Len(topics) |->
                   Candidate(topics[i],
                             RetentionOf(user_id, topics[i].topic_id,
                                         dbKind = "truthy"),
                             focus_areas)]),
            0, daily_study_minutes)

\* C20: the planner is deterministic: a generate_adaptive_plan run returns the
\* tasks_today sequence that its mastery profile, retention records, weakness
\* focus list and budget determine (topics, task types, priorities and order,
\* ties included), so two runs over the same inputs return the same sequence.
C20_Step ==
    \A u \in Users, m \in Budgets :
        PlanCall(u, m) =>
            /\ plan'.status = "returned"
            /\ plan'.tasks_today =
                   TasksFor(u, AnalysisOf("model", u).focus_areas, m)
            /\ (plan.status # "none" /\ plan.user_id = u
                    /\ plan.daily_study_minutes = m
                    /\ masteryStore' = masteryStore)
                   => plan'.tasks_today = plan.tasks_today

C20_SameInputsSameTasks == [][C20_Step]_vars

\* C21: on a successful revision the stability boost is stronger when the
\* retention at review time was lower: of two successful reviews that start
\* from the same stability, the one with the lower retention produces a new
\* stability at least as large as the other.
C21_LowerRetentionBoostsMore ==
    (probe.fn = "update_stability" /\ probe.done /\ probe.x.successful
        /\ probe.x.lower <= probe.x.higher)
        => probe.y[1] >= probe.y[2]

\* the gaps of a classification that are the largest, by name of the signal
\* type each stands for
LargestGaps(x) ==
    LET gaps == [mastery_gap |-> x.mastery_gap,
                 retention_decay |-> x.retention_risk,
                 performance_variance |-> x.difficulty_gap]
    IN  {g \in DOMAIN gaps : \A h \in DOMAIN gaps : gaps[g] >= gaps[h]}

\* C22: signal classification picks the gap that is strictly the largest and
\* above 0.3; when two or more gaps tie for the largest value, or no gap
\* exceeds 0.3, the signal type is general_weakness.
C22_TiesAreGeneralWeakness ==
    (probe.fn = "_determine_signal_type" /\ probe.done) =>
        LET largest == LargestGaps(probe.x)
            top == Max2(Max2(probe.x.mastery_gap, probe.x.retention_risk),
                        probe.x.difficulty_gap)
        IN  IF Cardinality(largest) = 1 /\ top > 300
            THEN probe.y \in largest
            ELSE probe.y = "general_weakness"

\* C23: analyze_weaknesses returns weak_topics in non-increasing order of
\* risk_score, focus_areas equal to the topic ids of the first three entries of
\* that list (fewer when fewer exist), and intervention_priority_score equal
\* to the mean risk of the listed topics (0 when the list is empty).
C23_RankedTopThreeAndMean ==
    (probe.fn = "RankWeakTopics" /\ probe.done) =>
        LET ranked == probe.y.weak_topics
            n == Len(ranked)
            total == SumSeq([i \in 1..n |-> ranked[i].risk_score])
        IN  /\ n = Len(probe.x)
            /\ \A t \in 1..n : \E i \in 1..n : ranked[i] = probe.x[t]
            /\ \A i \in 1..n, j \in 1..n :
                   i < j => ranked[i].risk_score >= ranked[j].risk_score
            /\ Len(probe.y.focus_areas) = IF n < 3 THEN n ELSE 3
            /\ \A i \in 1..Len(probe.y.focus_areas) :
                   probe.y.focus_areas[i] = ranked[i].topic_id
            /\ IF n = 0 THEN probe.y.intervention_priority_score = 0
               ELSE 2 * Abs(probe.y.intervention_priority_score * n - total) <= n

\* C23's case: four weak topics collected in ascending order of risk
C23_Witness ==
    /\ probe.fn = "RankWeakTopics"
    /\ probe.done
    /\ [i \in 1..Len(probe.x) |-> probe.x[i].risk_score]
           = <<25000, 40000, 40000, 70000>>
    /\ probe.y.focus_areas = <<4, 2, 3>>
    /\ probe.y.intervention_priority_score = 43750

\* the candidates of a planner run in the order the sort leaves them
CandidatesFor(user_id, focus_areas) ==
    LET topics == get_user_mastery_profile(user_id)
    IN  SortByPriority(
            [i \in 1..Len(topics) |->
               Candidate(topics[i],
                         RetentionOf(user_id, topics[i].topic_id, dbKind = "truthy"),
                         focus_areas)])

\* the minutes of the tasks selected among the first n candidates
MinutesBefore(candidates, tasks, n) ==
    SumSeq([i \in 1..n |->
              IF \E t \in 1..Len(tasks) : tasks[t].topic_id = candidates[i].topic_id
              THEN candidates[i].time_minutes ELSE 0])

\* C24: tasks_today is in non-increasing priority order, and a candidate is
\* left out only if, when it was considered in descending-priority order,
\* adding its time to the minutes already selected would exceed the budget; a
\* candidate that does not fit does not stop later candidates that still fit.
C24_Step ==
    \A u \in Users, m \in Budgets :
        PlanCall(u, m) =>
            LET tasks == plan'.tasks_today
                candidates == CandidatesFor(u, AnalysisOf("model", u).focus_areas)
            IN  /\ plan'.status = "returned"
                /\ \A i \in 1..Len(tasks), j \in 1..Len(tasks) :
                       i < j => Ge(tasks[i].priority, tasks[j].priority)
                /\ \A i \in 1..Len(candidates) :
                       (\E t \in 1..Len(tasks) :
                            tasks[t].topic_id = candidates[i].topic_id)
                       <=> MinutesBefore(candidates, tasks, i - 1)
                               + candidates[i].time_minutes <= m

C24_GreedyPackingInPriorityOrder == [][C24_Step]_vars

\* C25: run_simulation projects day by day: a topic's projected mastery on a
\* day is its projected mastery of the previous day plus the topic's daily
\* gain, capped at 1.0, starting from the stored mastery; a focused topic with
\* positive study hours strictly rises from day to day until it reaches 1.0.
C25_CurveAccumulatesDaily ==
    simulation.status = "returned" =>
        \A i \in 1..Len(simulation.projected_mastery_curves) :
            LET topic == simulation.profile[i]
                curve == simulation.projected_mastery_curves[i].curve
            IN  /\ Len(curve) >= 1 =>
                       curve[1] = NewMastery(topic, simulation.scenario)
                /\ \A d \in 1..(Len(curve) - 1) :
                       /\ curve[d + 1] =
                              NewMastery([topic EXCEPT !.mastery = curve[d]],
                                         simulation.scenario)
                       /\ (/\ topic.topic_id \in simulation.scenario.focus_topics
                            /\ simulation.scenario.daily_study_hours > 0
                            /\ curve[d] < 1000)
                           => curve[d + 1] > curve[d]

\* the days of a trajectory (from 0) whose value is at least 80
DaysAtEighty(trajectory) ==
    {d \in 0..(Len(trajectory) - 1) : Ge(trajectory[d + 1], 80000)}

\* C26: the completion forecast of run_simulation is the start date plus the
\* index of the first day whose trajectory value is at least 80; no later day
\* is reported when an earlier day already reaches 80.
C26_ForecastIsFirstDayAtEighty ==
    simulation.status = "returned" =>
        LET days == DaysAtEighty(simulation.projected_readiness_trajectory)
        IN  days # {} =>
                /\ simulation.completion_days \in days
                /\ \A d \in days : simulation.completion_days <= d

\* C26's case: a trajectory with several days at 80 or more
C26_Witness ==
    /\ simulation.status = "returned"
    /\ Cardinality(DaysAtEighty(simulation.projected_readiness_trajectory)) >= 2
    /\ simulation.completion_days = 0

\* C30: when no day of the simulated horizon reaches a trajectory value of 80
\* (an empty trajectory included: no topics, or a zero-day horizon),
\* run_simulation reports the simulation start date as the completion
\* forecast, the value it also reports when day 0 already reaches 80.
C30_NoCrossingReportsStartDate ==
    (/\ simulation.status = "returned"
     /\ DaysAtEighty(simulation.projected_readiness_trajectory) = {})
    => simulation.completion_days = 0

\* C30's case: a horizon of several days, none of which reaches 80
C30_Witness ==
    /\ simulation.status = "returned"
    /\ Len(simulation.projected_readiness_trajectory) >= 2
    /\ DaysAtEighty(simulation.projected_readiness_trajectory) = {}
    /\ simulation.completion_days = 0

\* C27: the confidence update_mastery returns and stores is derived from the
\* final mastery probability of the batch only: batches that end at the same
\* final probability yield the same confidence, the confidence of that
\* probability, whatever the intermediate probabilities were.
C27_ConfidenceOfFinalProbability ==
    /\ \A p \in Procs :
           masteryResult[p].status = "returned" =>
               masteryResult[p].confidence_score
                   = Confidence(masteryResult[p].mastery_probability)
    /\ \A k \in Keys :
           masteryStore[k].present =>
               masteryStore[k].confidence_score
                   = Confidence(masteryStore[k].mastery_probability)

\* C28: after any sequence of non-overlapping update_mastery calls on a
\* database-backed engine there is exactly one TopicMasteryRecord for each
\* (learner, topic) that received attempts, its attempts_count is the total
\* number of attempts submitted for that key over all calls, and
\* get_user_mastery_profile lists exactly those topics for the learner.
C28_OneRecordPerUpdatedKey ==
    (HasCollection /\ Quiescent) =>
        /\ \A k \in Keys :
               /\ masteryStore[k].present <=> submitted[k] > 0
               /\ masteryStore[k].present =>
                      masteryStore[k].attempts_count = submitted[k]
        /\ \A u \in Users :
               LET topics == get_user_mastery_profile(u)
               IN  /\ {topics[i].topic_id : i \in 1..Len(topics)}
                          = {k[2] : k \in {q \in KeysOf(u) : submitted[q] > 0}}
                   /\ \A i \in 1..Len(topics), j \in 1..Len(topics) :
                          topics[i].topic_id = topics[j].topic_id => i = j
                   /\ \A i \in 1..Len(topics) :
                          topics[i].attempts = submitted[<<u, topics[i].topic_id>>]

\* C28's case: two topics of one learner updated by several calls in turn
C28_Witness ==
    /\ HasCollection
    /\ Quiescent
    /\ calls = 3
    /\ submitted[<<"u1", "trees">>] = 4
    /\ submitted[<<"u1", "algorithms">>] = 1
    /\ Len(get_user_mastery_profile("u1")) = 2
    /\ get_user_mastery_profile("u2") = <<>>

\* C29: get_revision_queue returns only topics of the given learner whose next
\* revision time is at or before the current time, in ascending order of next
\* revision time, and never more than the limit; a topic whose next revision
\* lies in the future is never in the queue.
C29_Step ==
    (reading' # reading /\ reading'.op = "get_revision_queue") =>
        LET queue == reading'.topics
            user_id == reading'.user_id
        IN  /\ Len(queue) <= QUEUE_LIMIT
            /\ \A i \in 1..Len(queue) :
                   /\ <<user_id, queue[i].topic_id>> \in Keys
                   /\ retentionStore[<<user_id, queue[i].topic_id>>].present
                   /\ retentionStore[<<user_id, queue[i].topic_id>>].nextRevisionDate
                          <= now * 1000
            /\ \A i \in 1..Len(queue), j \in 1..Len(queue) :
                   i < j => queue[i].next_revision_date <= queue[j].next_revision_date
            /\ \A k \in KeysOf(user_id) :
                   (retentionStore[k].present
                        /\ retentionStore[k].nextRevisionDate > now * 1000)
                   => \A i \in 1..Len(queue) : queue[i].topic_id # k[2]

====
